---- MODULE Spec2Model ----
(***************************************************************************)
(* Birthday notification pipeline: BirthdayCheckService.performDailyCheck  *)
(* with its collaborators Configuration, ExcelParser (outcome level),      *)
(* DateMatcher and SMSService (formatMessage, sendBirthdayNotification,    *)
(* sendWithRetry, sendSMS, delay); and, each on its own, the matcher, the  *)
(* formatter, the row loop of ExcelParser.parseFile, ExcelParser.parseDate *)
(* and SMSService.sendBirthdayNotification; the Scheduler with its callers *)
(* and its cron tasks; the Logger with its log directory.                  *)
(*                                                                         *)
(* Texts are modelled structurally: a string built as `prefix: detail` is  *)
(* a record of its parts, a name or a message is the sequence of its words *)
(* and white-space characters, and a string that a regular expression      *)
(* inspects is the sequence of its characters.                             *)
(***************************************************************************)
EXTENDS Integers, Sequences, FiniteSets, TLC

\* ------------------------------------------------------------------ bounds
\* Largest number of associates a parsed workbook yields in the model.
MaxAssociates == 2

\* Largest number of associates handed to formatMessage called on its own.
MaxListed == 3

\* Largest number of rows of a worksheet handed to the row loop of parseFile.
MaxRows == 3

\* -------------------------------------------------------- program constants
maxAttempts == 3

\* null / undefined
NULL == [null |-> TRUE]

\* ------------------------------------------------------------ Configuration
Digits == {"0", "1", "2", "3", "4", "5", "6", "7", "8", "9"}

\* String.prototype.replace(/[\s-]/g, '')
RECURSIVE StripSpacesAndDashes(_)
StripSpacesAndDashes(s) ==
  IF s = <<>> THEN <<>>
  ELSE IF Head(s) \in {" ", "-"} THEN StripSpacesAndDashes(Tail(s))
       ELSE <<Head(s)>> \o StripSpacesAndDashes(Tail(s))

\* a validation that accepts every number that is set
validateMobileNumber_anySet(mobileNumber) == mobileNumber # <<>>

\* Configuration.validateMobileNumber: /^\+\d{10,15}$/ on the cleaned value
validateMobileNumber(mobileNumber) ==
  IF mobileNumber = <<>> THEN FALSE
  ELSE LET cleaned == StripSpacesAndDashes(mobileNumber) IN
       /\ Len(cleaned) >= 1
       /\ cleaned[1] = "+"
       /\ Len(cleaned) - 1 >= 10
       /\ Len(cleaned) - 1 <= 15
       /\ \A i \in 2..Len(cleaned) : cleaned[i] \in Digits

\* Configuration.validateScheduledTime: /^([0-1]?[0-9]|2[0-3]):[0-5][0-9]$/
validateScheduledTime(time) ==
  IF time = <<>> THEN FALSE
  ELSE \/ /\ Len(time) = 5
          /\ \/ time[1] \in {"0", "1"} /\ time[2] \in Digits
             \/ time[1] = "2" /\ time[2] \in {"0", "1", "2", "3"}
          /\ time[3] = ":"
          /\ time[4] \in {"0", "1", "2", "3", "4", "5"}
          /\ time[5] \in Digits
       \/ /\ Len(time) = 4
          /\ time[1] \in Digits
          /\ time[2] = ":"
          /\ time[3] \in {"0", "1", "2", "3", "4", "5"}
          /\ time[4] \in Digits

\* Configuration.validateFilePath: fs.existsSync(path.resolve(filePath)).
\* The paths of the model: "" (unset), "book.xlsx" (a workbook that exists),
\* "notes.csv" (a file that exists but is no workbook) and "missing.xlsx"
\* (nothing there).
validateFilePath(filePath) ==
  filePath \in {"book.xlsx", "notes.csv"}

\* path.extname(resolvedPath).toLowerCase()
extname(filePath) ==
  CASE filePath = "notes.csv" -> ".csv"
    [] filePath \in {"book.xlsx", "missing.xlsx"} -> ".xlsx"
    [] OTHER -> ""

Plus1234567890 == <<"+", "1", "2", "3", "4", "5", "6", "7", "8", "9", "0">>
ShortNumber == <<"1", "2", "3", "4", "5">>
SpacedNumber ==
  <<"+", "1", " ", "2", "3", "4", "-", "5", "6", "7", "-", "8", "9", "0", "1">>
NineOClock == <<"0", "9", ":", "0", "0">>

\* process.env as the tests of the repository set it up
BaseEnv ==
  [EXCEL_FILE_PATH |-> "book.xlsx",
   RECIPIENT_MOBILE_NUMBER |-> Plus1234567890,
   SMS_API_URL |-> "https://api.example.com/sms",
   SMS_API_KEY |-> "test-api-key",
   SMS_SENDER_ID |-> "BirthdayBot",
   SCHEDULED_TIME |-> NineOClock]

\* Environments the model draws from: the valid one and single deviations.
EnvSamples ==
  {BaseEnv,
   [BaseEnv EXCEPT !.SMS_API_KEY = ""],
   [BaseEnv EXCEPT !.RECIPIENT_MOBILE_NUMBER = ShortNumber],
   [BaseEnv EXCEPT !.RECIPIENT_MOBILE_NUMBER = SpacedNumber],
   [BaseEnv EXCEPT !.EXCEL_FILE_PATH = "notes.csv"]}

\* Configuration.loadFromEnvironment (the fields the pipeline reads)
loadFromEnvironment(e) ==
  [excelFilePath |-> e.EXCEL_FILE_PATH,
   recipientMobileNumber |-> e.RECIPIENT_MOBILE_NUMBER,
   smsApiUrl |-> e.SMS_API_URL,
   smsApiKey |-> e.SMS_API_KEY,
   smsSenderId |-> e.SMS_SENDER_ID,
   scheduledTime |-> IF e.SCHEDULED_TIME = <<>> THEN NineOClock ELSE e.SCHEDULED_TIME]

\* Configuration.validate: the list of validation errors, in code order
validate(c) ==
  (IF c.excelFilePath = "" THEN <<"Excel file path is required (EXCEL_FILE_PATH)">>
   ELSE IF ~validateFilePath(c.excelFilePath) THEN <<"Excel file not found at path">>
   ELSE <<>>)
  \o
  (IF c.recipientMobileNumber = <<>> THEN <<"Recipient mobile number is required (RECIPIENT_MOBILE_NUMBER)">>
   ELSE IF ~validateMobileNumber(c.recipientMobileNumber) THEN <<"Recipient mobile number format is invalid">>
   ELSE <<>>)
  \o (IF c.smsApiUrl = "" THEN <<"SMS API URL is required (SMS_API_URL)">> ELSE <<>>)
  \o (IF c.smsApiKey = "" THEN <<"SMS API key is required (SMS_API_KEY)">> ELSE <<>>)
  \o (IF c.smsSenderId = "" THEN <<"SMS sender ID is required (SMS_SENDER_ID)">> ELSE <<>>)
  \o (IF ~validateScheduledTime(c.scheduledTime) THEN <<"Scheduled time format is invalid">> ELSE <<>>)

\* SMSService constructor: the fields it copies
NewSMSService(c) ==
  [apiUrl |-> c.smsApiUrl,
   apiKey |-> c.smsApiKey,
   senderId |-> c.smsSenderId,
   recipientNumber |-> c.recipientMobileNumber]

\* SMSService.validateConfiguration: the list of errors (empty = accepted)
validateConfiguration(s) ==
  (IF s.apiUrl = "" THEN <<"SMS API URL is required">> ELSE <<>>)
  \o (IF s.apiKey = "" THEN <<"SMS API key is required">> ELSE <<>>)
  \o (IF s.senderId = "" THEN <<"SMS sender ID is required">> ELSE <<>>)
  \o (IF s.recipientNumber = <<>> THEN <<"Recipient mobile number is required">> ELSE <<>>)

\* ------------------------------------------------------------------ errors
\* new Error(`${prefix}: ${detail}`) with an optional status code in the text
Err(prefix, code, detail) == [prefix |-> prefix, code |-> code, detail |-> detail]

\* `${step}: ${error.message}` as performDailyCheck pushes it to errors
Wrapped(step, error) == [prefix |-> step, cause |-> error]

\* -------------------------------------------------------------- Associates
\* Names as parseFile stores them: trimmed, not blank; white space inside
\* a name is kept.
Names == {<<"Ann">>, <<"Mary", " ", "Lou">>}

\* A Date object whose time value is NaN (`new Date('invalid')`)
InvalidDate == [invalid |-> TRUE]

\* A JavaScript string, as the sequence of its words and white-space
\* characters (or of its characters)
Str(text) == [text |-> text]
isString(value) == "text" \in DOMAIN value

\* A JavaScript number: number + quarter / 4 with quarter in 0..3 (so that
\* `number` is the floor of the value), and the numbers NaN and Infinity
Frac(n, q) == [number |-> n, quarter |-> q]
Num(n) == Frac(n, 0)
NaN == [number |-> 0, quarter |-> 0, nan |-> TRUE]
Infinity == [number |-> 0, quarter |-> 0, infinite |-> TRUE]
isNumber(value) == "number" \in DOMAIN value

\* A string where a Date object is expected
TextDate == Str(<<"1", "9", "9", "0", "-", "0", "2", "-", "2", "8">>)

\* `value instanceof Date`: valid dates are [year, month, day] records
instanceofDate(value) == value = InvalidDate \/ "year" \in DOMAIN value

\* `isNaN(date.getTime())`
isNaNTime(date) == date = InvalidDate

\* A JavaScript array with the given elements, and a value that is none
Array(items) == [items |-> items]
NotAnArray == [object |-> TRUE]
isArray(value) == "items" \in DOMAIN value

\* Local calendar dates the workbook cells and the wall clock take.
BirthDates ==
  {[year |-> 2000, month |-> 2, day |-> 29],
   [year |-> 1990, month |-> 2, day |-> 28]}

Todays ==
  {[year |-> 2024, month |-> 2, day |-> 29],
   [year |-> 2023, month |-> 2, day |-> 28],
   [year |-> 2023, month |-> 3, day |-> 1]}

\* new Associate(name, dateOfBirth, rowNumber)
Associate(name, dateOfBirth, rowNumber) ==
  [name |-> name, dateOfBirth |-> dateOfBirth, rowNumber |-> rowNumber]

\* The lists parseFile can return: row 1 is the header, records follow in
\* row order.
AssociateLists ==
  UNION {{[i \in 1..n |-> Associate(f[i][1], f[i][2], i + 1)] :
            f \in [1..n -> Names \X BirthDates]} : n \in 0..MaxAssociates}

\* -------------------------------------------------------------- DateMatcher
\* a matcher that also compares the year
findBirthdaysOnDate_sameYear(list, date) ==
  IF list = NULL \/ ~isArray(list) THEN <<>>
  ELSE IF date = NULL \/ ~instanceofDate(date) \/ isNaNTime(date) THEN <<>>
  ELSE LET OnDate(a) == /\ a # NULL
                        /\ a.dateOfBirth # NULL
                        /\ instanceofDate(a.dateOfBirth)
                        /\ ~isNaNTime(a.dateOfBirth)
                        /\ a.dateOfBirth = date
       IN SelectSeq(list.items, OnDate)

\* a matcher that observes a Feb 29 birthday on Feb 28 of a common year
findBirthdaysOnDate_feb28(list, date) ==
  IF list = NULL \/ ~isArray(list) THEN <<>>
  ELSE IF date = NULL \/ ~instanceofDate(date) \/ isNaNTime(date) THEN <<>>
  ELSE LET OnDate(a) == /\ a # NULL
                        /\ a.dateOfBirth # NULL
                        /\ instanceofDate(a.dateOfBirth)
                        /\ ~isNaNTime(a.dateOfBirth)
                        /\ \/ /\ a.dateOfBirth.month = date.month
                              /\ a.dateOfBirth.day = date.day
                           \/ /\ a.dateOfBirth.month = 2
                              /\ a.dateOfBirth.day = 29
                              /\ date.month = 2
                              /\ date.day = 28
                              /\ date.year % 4 # 0
       IN SelectSeq(list.items, OnDate)

\* a matcher that keeps the records it cannot read a birthday from
findBirthdaysOnDate_keepUnreadable(list, date) ==
  IF list = NULL \/ ~isArray(list) THEN <<>>
  ELSE IF date = NULL \/ ~instanceofDate(date) \/ isNaNTime(date) THEN <<>>
  ELSE LET OnDate(a) == /\ a # NULL
                        /\ \/ a.dateOfBirth = NULL
                           \/ ~instanceofDate(a.dateOfBirth)
                           \/ isNaNTime(a.dateOfBirth)
                           \/ /\ a.dateOfBirth.month = date.month
                              /\ a.dateOfBirth.day = date.day
       IN SelectSeq(list.items, OnDate)

\* DateMatcher.findBirthdaysOnDate: the guards on the list and on the date,
\* then the filter: getMonth() and getDate() must agree (NaN agrees with
\* nothing)
findBirthdaysOnDate(list, date) ==
  IF list = NULL \/ ~isArray(list) THEN <<>>
  ELSE IF date = NULL \/ ~instanceofDate(date) \/ isNaNTime(date) THEN <<>>
  ELSE LET OnDate(a) == /\ a # NULL
                        /\ a.dateOfBirth # NULL
                        /\ instanceofDate(a.dateOfBirth)
                        /\ ~isNaNTime(a.dateOfBirth)
                        /\ a.dateOfBirth.month = date.month
                        /\ a.dateOfBirth.day = date.day
       IN SelectSeq(list.items, OnDate)

\* DateMatcher.findBirthdaysToday: `now` is the value of new Date()
findBirthdaysToday(list, now) == findBirthdaysOnDate(list, now)

\* --------------------------------------------------------------- SMSService
\* 'Birthday Alert! Today\'s birthdays:'
HeaderLine == <<"Birthday", " ", "Alert!", " ", "Today's", " ", "birthdays:">>

\* The characters String.prototype.trim removes
WhiteSpace == {" ", "\t", "\n"}

RECURSIVE trimStart(_)
trimStart(text) ==
  IF text # <<>> /\ Head(text) \in WhiteSpace THEN trimStart(Tail(text))
  ELSE text

RECURSIVE trimEnd(_)
trimEnd(text) ==
  IF text # <<>> /\ text[Len(text)] \in WhiteSpace
  THEN trimEnd(SubSeq(text, 1, Len(text) - 1))
  ELSE text

\* String.prototype.trim
trim(text) == trimEnd(trimStart(text))

\* formatMessage, forEach: message += `- ${associate.name}\n`
RECURSIVE bulletLines(_)
bulletLines(items) ==
  IF items = <<>> THEN <<>>
  ELSE <<"-", " ">> \o Head(items).name \o <<"\n">> \o bulletLines(Tail(items))

\* formatMessage that lists only the first associate
formatMessage_firstOnly(list) ==
  IF list = NULL \/ Len(list.items) = 0 THEN <<>>
  ELSE trim(HeaderLine \o <<"\n">> \o bulletLines(<<list.items[1]>>))

\* formatMessage that returns the text as built, without trim()
formatMessage_untrimmed(list) ==
  IF list = NULL \/ Len(list.items) = 0 THEN <<>>
  ELSE HeaderLine \o <<"\n">> \o bulletLines(list.items)

\* SMSService.formatMessage
formatMessage(list) ==
  IF list = NULL \/ Len(list.items) = 0 THEN <<>>
  ELSE trim(HeaderLine \o <<"\n">> \o bulletLines(list.items))

\* What one axios.post can do: resolve with a response, reject with a
\* response (non-2xx), reject with only a request (nothing came back), or
\* reject before a request existed.
Response(kind, status, messageId, id, message, error) ==
  [kind |-> kind, status |-> status, messageId |-> messageId, id |-> id,
   message |-> message, error |-> error]

\* (axios rejects every non-2xx response by default, so a resolved response
\* is a 2xx one.)
AxiosOutcomes ==
  {Response("resolved", 200, "msg-1", "", "", ""),
   Response("resolved", 201, "", "", "", ""),
   Response("response", 401, "", "", "Invalid API key", ""),
   Response("response", 403, "", "", "", "Access denied"),
   Response("response", 400, "", "", "Invalid phone number format", ""),
   Response("response", 500, "", "", "", ""),
   Response("request", 0, "", "", "", "")}

\* SMSService.sendSMS: [ok, messageId] on return, [ok = FALSE, error] on throw
sendSMS(o) ==
  IF o.kind = "resolved" THEN
    IF o.status >= 200 /\ o.status < 300
    THEN [ok |-> TRUE,
          messageId |-> IF o.messageId # "" THEN o.messageId
                        ELSE IF o.id # "" THEN o.id ELSE "unknown",
          error |-> NULL]
    ELSE [ok |-> FALSE, messageId |-> "",
          error |-> Err("SMS sending failed", o.status, <<"SMS API returned status">>)]
  ELSE IF o.kind = "response" THEN
    LET message == IF o.message # "" THEN o.message
                   ELSE IF o.error # "" THEN o.error ELSE "Unknown error"
    IN [ok |-> FALSE, messageId |-> "",
        error |-> IF o.status = 401 \/ o.status = 403
                  THEN Err("Authentication failed", 0, <<message>>)
                  ELSE IF o.status = 400
                  THEN Err("Invalid request", 0, <<message>>)
                  ELSE Err("API error", o.status, <<message>>)]
  ELSE IF o.kind = "request" THEN
    [ok |-> FALSE, messageId |-> "",
     error |-> Err("Network error", 0, <<"Unable to reach SMS API">>)]
  ELSE
    [ok |-> FALSE, messageId |-> "",
     error |-> Err("SMS sending failed", 0, <<"request setup failed">>)]

\* 2 ** n
RECURSIVE Pow2(_)
Pow2(n) == IF n = 0 THEN 1 ELSE 2 * Pow2(n - 1)

\* a backoff of 2^(attempt-1) seconds
delayMs_fromOne(attempt) == Pow2(attempt - 1) * 1000

\* sendWithRetry: Math.pow(2, attempt) * 1000
delayMs(attempt) == Pow2(attempt) * 1000

\* a catch block that compares with > and so allows a fourth attempt
catchDecision_offByOne(error, attempt) ==
  IF attempt > maxAttempts THEN "fail" ELSE "retry"

\* a catch block that does not retry an authentication failure
catchDecision_noAuthRetry(error, attempt) ==
  IF attempt >= maxAttempts \/ error.prefix = "Authentication failed"
  THEN "fail" ELSE "retry"

\* sendWithRetry, catch block: give up or sleep and retry
catchDecision(error, attempt) ==
  IF attempt >= maxAttempts THEN "fail" ELSE "retry"

\* a guard that lets an empty list through
noAssociates_nullOnly(list) == list = NULL

\* sendBirthdayNotification: `!associates || associates.length === 0`
noAssociates(list) == list = NULL \/ Len(list.items) = 0

\* sendBirthdayNotification: the result for an empty or missing list
noAssociatesResult(ts) ==
  [success |-> FALSE, messageId |-> "",
   error |-> Err("No associates provided for notification", 0, <<>>),
   timestamp |-> ts, attempts |-> 0]

\* ============================================================ state machine
VARIABLES
  env,              \* process.env
  config,           \* BirthdayCheckService.config (NULL or a Configuration)
  excelParser,      \* BirthdayCheckService.excelParser ("null" or constructed)
  dateMatcher,      \* BirthdayCheckService.dateMatcher ("null" or constructed)
  smsService,       \* BirthdayCheckService.smsService (NULL or an SMSService)
  pc,               \* position of the performDailyCheck call in flight
  associates,       \* performDailyCheck local
  birthdaysFound,   \* performDailyCheck local
  notificationSent, \* performDailyCheck local
  errors,           \* performDailyCheck local
  today,            \* value of new Date() inside findBirthdaysToday
  message,          \* sendBirthdayNotification local
  timestamp,        \* sendBirthdayNotification local
  attempt,          \* sendWithRetry parameter
  smsResult,        \* value sendBirthdayNotification resolved with
  clock,            \* logical time since the run began
  initCalls,        \* one entry per initialize() call made by this run
  parseLog,         \* one entry per ExcelParser.parseFile call in this run
  matcherCalls,     \* calls of DateMatcher.findBirthdaysToday in this run
  notifyCalls,      \* calls of SMSService.sendBirthdayNotification in this run
  attemptLog,       \* one entry per SMSService.sendSMS call in this run
  sleeps,           \* one entry per SMSService.delay call in this run
  result            \* value performDailyCheck resolved with

pipelineVars == <<env, config, excelParser, dateMatcher, smsService, pc, associates,
          birthdaysFound, notificationSent, errors, today, message, timestamp,
          attempt, smsResult, clock, initCalls, parseLog, matcherCalls,
          notifyCalls, attemptLog, sleeps, result>>

service == <<config, excelParser, dateMatcher, smsService>>
locals == <<associates, birthdaysFound, notificationSent, errors>>
delivery == <<message, timestamp, attempt, smsResult>>
history == <<initCalls, parseLog, matcherCalls, notifyCalls, attemptLog, sleeps>>

\* DateMatcher.findBirthdaysOnDate called on its own
VARIABLES
  mPc,              \* "off", "ready" (arguments chosen) or "returned"
  mAssociates,      \* the `associates` argument
  mDate,            \* the `date` argument
  mResult           \* the array returned

matcherVars == <<mPc, mAssociates, mDate, mResult>>

\* SMSService.formatMessage called on its own
VARIABLES
  fPc,              \* "off", "ready" (argument chosen) or "returned"
  fAssociates,      \* the `associates` argument
  fMessage          \* the text returned

formatVars == <<fPc, fAssociates, fMessage>>

\* The row loop of ExcelParser.parseFile on its own
VARIABLES
  pPc,              \* "off", "rows" (in the loop) or "returned"
  pData,            \* `data`: the rows sheet_to_json returned
  pI,               \* `i`
  pAssociates,      \* `associates`
  pValidRows,       \* `validRows`
  pSkippedRows,     \* `skippedRows`
  pLog              \* the calls of this.log made so far

parseVars == <<pPc, pData, pI, pAssociates, pValidRows, pSkippedRows, pLog>>

\* Two runs of performDailyCheck, each on a service of its own, which differ
\* in the API key only
VARIABLES
  kEnv,             \* process.env of both runs, SMS_API_KEY apart
  kKeys,            \* SMS_API_KEY of the first and of the second run
  kScenario,        \* what the workbook, the clock and the provider do
  kOut              \* what each run returned and logged (NULL: not yet run)

keyVars == <<kEnv, kKeys, kScenario, kOut>>

\* ExcelParser.parseDate called on its own
VARIABLES
  dPc,              \* "off", "ready" (argument chosen) or "returned"
  dValue,           \* the `value` argument
  dResult           \* the Date returned, or NULL

dateVars == <<dPc, dValue, dResult>>

\* The host the parser runs on
VARIABLES
  utcOffset         \* minutes its local time is ahead of UTC

hostVars == <<utcOffset>>

\* SMSService.sendBirthdayNotification called by a caller of its own
VARIABLES
  nAssociates       \* the `associates` argument

notifyVars == <<nAssociates>>

\* A Scheduler, its callers and the cron tasks it created
VARIABLES
  scheduledTime,        \* Scheduler.scheduledTime
  birthdayCheckService, \* Scheduler.birthdayCheckService: NULL or the service
                        \* object (the service's own fields are config,
                        \* excelParser, dateMatcher and smsService above)
  cronJob,              \* Scheduler.cronJob: NULL or a task of cronJobs
  isRunning,            \* Scheduler.isRunning
  cronJobs,             \* node-cron: the tasks created, "scheduled" or "stopped"
  suspended,            \* calls of start/runNow waiting at `await this.initialize()`
  runs,                 \* the calls of performDailyCheck made, in call order
  callLog,              \* the calls made on the Scheduler, in call order
  afterStop             \* stop() stopped the scheduler and start() was not
                        \* called since

schedulerVars == <<scheduledTime, birthdayCheckService, cronJob, isRunning,
                   cronJobs, suspended, runs, callLog, afterStop>>

\* A Logger and its log directory
VARIABLES
  maxFiles,             \* Logger.maxFiles
  maxFileSize,          \* Logger.maxFileSize
  logDir,               \* the files of Logger.logDir that end in .log
  logDate,              \* the UTC date, in days since the Logger was made
  logTime               \* the time, in log calls since the Logger was made

loggerVars == <<maxFiles, maxFileSize, logDir, logDate, logTime>>

\* The variables of the calls made on single components
unitVars == <<matcherVars, formatVars, parseVars, keyVars, dateVars, hostVars,
              notifyVars, schedulerVars, loggerVars>>

vars == <<pipelineVars, unitVars>>

\* No call on the matcher alone
MatcherOff ==
  /\ mPc = "off"
  /\ mAssociates = NULL
  /\ mDate = NULL
  /\ mResult = <<>>

\* No call on formatMessage alone
FormatOff ==
  /\ fPc = "off"
  /\ fAssociates = NULL
  /\ fMessage = <<>>

\* No call on parseFile alone
ParseOff ==
  /\ pPc = "off"
  /\ pData = <<>>
  /\ pI = 0
  /\ pAssociates = <<>>
  /\ pValidRows = 0
  /\ pSkippedRows = 0
  /\ pLog = <<>>

\* No pair of runs
KeysOff ==
  /\ kEnv = BaseEnv
  /\ kKeys = <<>>
  /\ kScenario = NULL
  /\ kOut = [first |-> NULL, second |-> NULL]

\* No call on parseDate alone
DateOff ==
  /\ dPc = "off"
  /\ dValue = NULL
  /\ dResult = NULL

\* A host on UTC
HostUTC == utcOffset = 0

\* No call on sendBirthdayNotification from outside the pipeline
NotifyOff == nAssociates = NULL

\* No Scheduler: the fields as the constructor leaves them with its defaults
SchedulerOff ==
  /\ scheduledTime = NineOClock
  /\ birthdayCheckService = NULL
  /\ cronJob = NULL
  /\ isRunning = FALSE
  /\ cronJobs = <<>>
  /\ suspended = <<>>
  /\ runs = <<>>
  /\ callLog = <<>>
  /\ afterStop = FALSE

\* No Logger: the defaults of its constructor and an empty directory
LoggerOff ==
  /\ maxFiles = 5
  /\ maxFileSize = 10 * 1024 * 1024
  /\ logDir = {}
  /\ logDate = 0
  /\ logTime = 0

UnitsOff ==
  /\ MatcherOff
  /\ FormatOff
  /\ ParseOff
  /\ KeysOff
  /\ DateOff
  /\ HostUTC
  /\ NotifyOff
  /\ SchedulerOff
  /\ LoggerOff

\* No call in flight and none made
NoCall(at) ==
  /\ pc = at
  /\ associates = <<>>
  /\ birthdaysFound = <<>>
  /\ notificationSent = FALSE
  /\ errors = <<>>
  /\ today = NULL
  /\ message = <<>>
  /\ timestamp = 0
  /\ attempt = 0
  /\ smsResult = NULL
  /\ clock = 0
  /\ initCalls = <<>>
  /\ parseLog = <<>>
  /\ matcherCalls = 0
  /\ notifyCalls = 0
  /\ attemptLog = <<>>
  /\ sleeps = <<>>
  /\ result = NULL

\* BirthdayCheckService constructor; no call in flight
ServiceConstructed ==
  /\ config = NULL
  /\ excelParser = "null"
  /\ dateMatcher = "null"
  /\ smsService = NULL
  /\ NoCall("idle")

\* The pipeline under the environment of the tests, never run
PipelineIdle == env = BaseEnv /\ ServiceConstructed

Init ==
  /\ env \in EnvSamples
  /\ ServiceConstructed
  /\ UnitsOff

\* The CheckResult object literal
CheckResult(total, found, sent, errs) ==
  [totalAssociatesChecked |-> total, birthdaysFound |-> found,
   notificationSent |-> sent, errors |-> errs]

\* BirthdayCheckService.initialize: the error it throws, NULL if it returns
initializeError(e) ==
  LET c == loadFromEnvironment(e) IN
  IF validate(c) # <<>>
  THEN Err("Configuration validation failed", 0, validate(c))
  ELSE IF validateConfiguration(NewSMSService(c)) # <<>>
  THEN Err("SMS Service configuration validation failed", 0,
           validateConfiguration(NewSMSService(c)))
  ELSE NULL

\* BirthdayCheckService.initialize: what it assigns before returning/throwing
initialize ==
  LET c == loadFromEnvironment(env) IN
  /\ config' = c
  /\ IF validate(c) # <<>>
     THEN UNCHANGED <<excelParser, dateMatcher, smsService>>
     ELSE /\ excelParser' = "ExcelParser"
          /\ dateMatcher' = "DateMatcher"
          /\ IF validateConfiguration(NewSMSService(c)) # <<>>
             THEN UNCHANGED smsService
             ELSE smsService' = NewSMSService(c)

\* A caller (Scheduler.initialize, index.js, a test) calls initialize()
Initialize ==
  /\ pc = "idle"
  /\ initialize
  /\ UNCHANGED <<env, pc, locals, today, delivery, clock, history, result>>
  /\ UNCHANGED unitVars

\* The environment variables change between calls
SetEnv ==
  /\ pc = "idle"
  /\ \E e \in EnvSamples \ {env} : env' = e
  /\ UNCHANGED <<service, pc, locals, today, delivery, clock, history, result>>
  /\ UNCHANGED unitVars

\* performDailyCheck is called: its locals are created
StartCheck ==
  /\ pc = "idle"
  /\ pc' = "init"
  /\ associates' = <<>>
  /\ birthdaysFound' = <<>>
  /\ notificationSent' = FALSE
  /\ errors' = <<>>
  /\ UNCHANGED <<env, service, today, delivery, clock, history, result>>
  /\ UNCHANGED unitVars

\* an outer catch block that rethrows instead of returning
outerCatch_rethrow(errs, error) == [raised |-> TRUE, errors |-> errs]

\* performDailyCheck, outer catch block: the error is recorded and the
\* call returns
outerCatch(errs, error) ==
  [raised |-> FALSE,
   errors |-> Append(errs, Wrapped("Unexpected error during birthday check",
                                   error))]

\* Step 1: `if (!this.config) await this.initialize()`; a throw reaches the
\* outer catch
EnsureInitialized ==
  /\ pc = "init"
  /\ IF config = NULL
     THEN /\ initialize
          /\ initCalls' = Append(initCalls, initializeError(env))
          /\ IF initializeError(env) # NULL
             THEN LET caught == outerCatch(errors, initializeError(env)) IN
                  /\ errors' = caught.errors
                  /\ IF caught.raised
                     THEN /\ pc' = "raised"
                          /\ UNCHANGED result
                     ELSE /\ result' = CheckResult(Len(associates),
                                           birthdaysFound, notificationSent,
                                           errors')
                          /\ pc' = "done"
             ELSE /\ pc' = "ingest"
                  /\ UNCHANGED <<errors, result>>
     ELSE /\ pc' = "ingest"
          /\ UNCHANGED <<service, errors, result, initCalls>>
  /\ UNCHANGED <<env, associates, birthdaysFound, notificationSent, today,
                 delivery, clock, parseLog, matcherCalls, notifyCalls,
                 attemptLog, sleeps>>
  /\ UNCHANGED unitVars

Threw(error) == [threw |-> TRUE, error |-> error, associates |-> <<>>]
Returned(list) == [threw |-> FALSE, error |-> NULL, associates |-> list]

\* ExcelParser.parseFile: what a call can do for a path.  The workbook's
\* content and the file system at the time of the call are the environment's.
parseFile(filePath) ==
  IF ~validateFilePath(filePath)
  THEN {Threw(Err("Excel file not found at path", 0, <<filePath>>))}
  ELSE IF extname(filePath) \notin {".xlsx", ".xls"}
  THEN {Threw(Err("Invalid file format", 0, <<extname(filePath)>>))}
  ELSE {Threw(Err("Excel file not found at path", 0, <<filePath>>)),
        Threw(Err("Excel file contains no worksheets", 0, <<>>)),
        Threw(Err("Failed to parse Excel file", 0, <<"unreadable workbook">>))}
       \cup {Returned(l) : l \in AssociateLists}

\* a catch block that returns without the error entry
ingestFailedResult_noError(errs) == CheckResult(0, <<>>, FALSE, <<>>)

\* Step 2, catch block: the result returned when parseFile threw
ingestFailedResult(errs) == CheckResult(0, <<>>, FALSE, errs)

\* Step 2: `associates = await this.excelParser.parseFile(...)`
Ingest ==
  /\ pc = "ingest"
  /\ IF excelParser = "null"
     THEN /\ errors' = Append(errors,
                 Wrapped("Failed to parse Excel file",
                         Err("TypeError", 0, <<"Cannot read properties of null">>)))
          /\ result' = ingestFailedResult(errors')
          /\ pc' = "done"
          /\ UNCHANGED <<associates, parseLog>>
     ELSE \E out \in parseFile(config.excelFilePath) :
          /\ parseLog' = Append(parseLog, out)
          /\ IF out.threw
             THEN /\ errors' = Append(errors,
                         Wrapped("Failed to parse Excel file", out.error))
                  /\ result' = ingestFailedResult(errors')
                  /\ pc' = "done"
                  /\ UNCHANGED associates
             ELSE /\ associates' = out.associates
                  /\ pc' = "match"
                  /\ UNCHANGED <<errors, result>>
  /\ UNCHANGED <<env, service, birthdaysFound, notificationSent, today,
                 delivery, clock, initCalls, matcherCalls, notifyCalls, attemptLog,
                 sleeps>>
  /\ UNCHANGED unitVars

\* a step 4 that is entered whatever the match set
shouldNotify_always(found) == TRUE

\* Step 4: `if (birthdaysFound.length > 0)`
shouldNotify(found) == Len(found) > 0

\* Step 3: findBirthdaysToday; with no birthday the run goes on to its summary
Match ==
  /\ pc = "match"
  /\ IF dateMatcher = "null"
     THEN /\ errors' = Append(errors,
                 Wrapped("Failed to match birthdays",
                         Err("TypeError", 0, <<"Cannot read properties of null">>)))
          /\ result' = CheckResult(Len(associates), <<>>, FALSE, errors')
          /\ pc' = "done"
          /\ UNCHANGED <<birthdaysFound, today, matcherCalls>>
     ELSE \E now \in Todays :
          /\ today' = now
          /\ matcherCalls' = matcherCalls + 1
          /\ birthdaysFound' = findBirthdaysToday(Array(associates), now)
          /\ IF shouldNotify(birthdaysFound')
             THEN /\ pc' = "deliver"
                  /\ UNCHANGED result
             ELSE /\ result' = CheckResult(Len(associates), birthdaysFound',
                                           notificationSent, errors)
                  /\ pc' = "done"
          /\ UNCHANGED errors
  /\ UNCHANGED <<env, service, associates, notificationSent, delivery, clock,
                 initCalls, parseLog, notifyCalls, attemptLog, sleeps>>
  /\ UNCHANGED unitVars

\* Step 3, catch block: a matcher that raises (a replaced collaborator)
MatchThrows ==
  /\ pc = "match"
  /\ dateMatcher # "null"
  /\ matcherCalls' = matcherCalls + 1
  /\ errors' = Append(errors,
        Wrapped("Failed to match birthdays", Err("Error", 0, <<"matcher raised">>)))
  /\ result' = CheckResult(Len(associates), <<>>, FALSE, errors')
  /\ pc' = "done"
  /\ UNCHANGED <<env, service, associates, birthdaysFound, notificationSent,
                 today, delivery, clock, initCalls, parseLog, notifyCalls,
                 attemptLog, sleeps>>
  /\ UNCHANGED unitVars

\* a failed delivery that is reported as sent
deliveryFailed_markSent(sent, errs, step, error) ==
  [notificationSent |-> TRUE, errors |-> Append(errs, Wrapped(step, error))]

\* Step 4, else branch and catch block: what a failed delivery leaves in
\* notificationSent and errors
deliveryFailed(sent, errs, step, error) ==
  [notificationSent |-> sent, errors |-> Append(errs, Wrapped(step, error))]

\* a success branch that also leaves an entry in errors
deliverySucceeded_noted(sent, errs) ==
  [notificationSent |-> TRUE,
   errors |-> Append(errs, Wrapped("SMS notification sent", NULL))]

\* Step 4, `if (smsResult.success)`: what a successful delivery leaves
deliverySucceeded(sent, errs) ==
  [notificationSent |-> TRUE, errors |-> errs]

\* Step 4: sendBirthdayNotification is entered: it takes the timestamp,
\* formats the message and enters sendWithRetry with attempt = 1
BeginNotification ==
  /\ pc = "deliver"
  /\ IF smsService = NULL
     THEN LET after == deliveryFailed(notificationSent, errors,
                         "Failed to send SMS notification",
                         Err("TypeError", 0, <<"Cannot read properties of null">>))
          IN /\ notificationSent' = after.notificationSent
             /\ errors' = after.errors
             /\ result' = CheckResult(Len(associates), birthdaysFound,
                                      notificationSent', errors')
             /\ pc' = "done"
             /\ UNCHANGED <<delivery, notifyCalls>>
     ELSE /\ notifyCalls' = notifyCalls + 1
          /\ timestamp' = clock
          /\ IF Len(birthdaysFound) = 0
             THEN /\ smsResult' = noAssociatesResult(timestamp')
                  /\ pc' = "result"
                  /\ UNCHANGED <<message, attempt>>
             ELSE /\ message' = formatMessage(Array(birthdaysFound))
                  /\ attempt' = 1
                  /\ pc' = "attempt"
                  /\ UNCHANGED smsResult
          /\ UNCHANGED <<notificationSent, errors, result>>
  /\ UNCHANGED <<env, service, associates, birthdaysFound, today, clock,
                 initCalls, parseLog, matcherCalls, attemptLog, sleeps>>
  /\ UNCHANGED unitVars

\* Step 4, catch block: a delivery call that raises (a replaced collaborator)
NotificationRejects ==
  /\ pc = "deliver"
  /\ smsService # NULL
  /\ notifyCalls' = notifyCalls + 1
  /\ LET after == deliveryFailed(notificationSent, errors,
                    "Failed to send SMS notification",
                    Err("Error", 0, <<"delivery raised">>))
     IN /\ notificationSent' = after.notificationSent
        /\ errors' = after.errors
  /\ result' = CheckResult(Len(associates), birthdaysFound, notificationSent',
                           errors')
  /\ pc' = "done"
  /\ UNCHANGED <<env, service, associates, birthdaysFound, today, delivery,
                 clock, initCalls, parseLog, matcherCalls, attemptLog, sleeps>>
  /\ UNCHANGED unitVars

\* a success result stamped when the successful attempt is made
successResult_stampNow(sent, ts, n) ==
  [success |-> TRUE, messageId |-> sent.messageId, error |-> NULL,
   timestamp |-> clock, attempts |-> n]

\* sendWithRetry: the result returned after a successful sendSMS
successResult(sent, ts, n) ==
  [success |-> TRUE, messageId |-> sent.messageId, error |-> NULL,
   timestamp |-> ts, attempts |-> n]

\* a failure result that reports the first attempt's error
failureResult_firstError(error, ts, n) ==
  [success |-> FALSE, messageId |-> "",
   error |-> IF attemptLog # <<>> THEN attemptLog[1].error ELSE error,
   timestamp |-> ts, attempts |-> n]

\* sendWithRetry: the result returned once the attempts are exhausted
failureResult(error, ts, n) ==
  [success |-> FALSE, messageId |-> "", error |-> error,
   timestamp |-> ts, attempts |-> n]

\* The request sendSMS hands to axios.post
Request(s, text) ==
  [to |-> s.recipientNumber, from |-> s.senderId, message |-> text,
   bearer |-> s.apiKey]

\* sendWithRetry, one attempt: sendSMS is called once and either returns
\* (success), or throws and the attempts are exhausted (failure), or throws
\* and a backoff sleep is due
SendAttempt ==
  /\ pc = "attempt"
  /\ \E o \in AxiosOutcomes :
       LET sent == sendSMS(o) IN
       /\ attemptLog' = Append(attemptLog,
             [at |-> clock, attempt |-> attempt,
              request |-> Request(smsService, message), error |-> sent.error])
       /\ clock' = clock + 1
       /\ IF sent.ok
          THEN /\ smsResult' = successResult(sent, timestamp, attempt)
               /\ pc' = "result"
          ELSE IF catchDecision(sent.error, attempt) = "fail"
          THEN /\ smsResult' = failureResult(sent.error, timestamp, attempt)
               /\ pc' = "result"
          ELSE /\ pc' = "sleep"
               /\ UNCHANGED smsResult
  /\ UNCHANGED <<env, service, locals, today, message, timestamp, attempt,
                 initCalls, parseLog, matcherCalls, notifyCalls, sleeps, result>>
  /\ UNCHANGED unitVars

\* a delay whose promise is never resolved
Delay_neverResolves ==
  /\ pc = "sleep"
  /\ UNCHANGED pipelineVars
  /\ UNCHANGED unitVars

\* sendWithRetry: `await this.delay(delayMs)`, then the recursive call with
\* attempt + 1
Delay ==
  /\ pc = "sleep"
  /\ sleeps' = Append(sleeps, [ms |-> delayMs(attempt), after |-> attempt,
                               at |-> clock])
  /\ clock' = clock + 1
  /\ attempt' = attempt + 1
  /\ pc' = "attempt"
  /\ UNCHANGED <<env, service, locals, today, message, timestamp, smsResult,
                 initCalls, parseLog, matcherCalls, notifyCalls, attemptLog,
                 result>>
  /\ UNCHANGED unitVars

\* Step 4 after the await, and step 5: the result is recorded and returned
HandleResult ==
  /\ pc = "result"
  /\ LET after == IF smsResult.success
                  THEN deliverySucceeded(notificationSent, errors)
                  ELSE deliveryFailed(notificationSent, errors,
                                      "SMS notification failed", smsResult.error)
     IN /\ notificationSent' = after.notificationSent
        /\ errors' = after.errors
  /\ result' = CheckResult(Len(associates), birthdaysFound, notificationSent',
                           errors')
  /\ pc' = "done"
  /\ UNCHANGED <<env, service, associates, birthdaysFound, today, delivery,
                 clock, history>>
  /\ UNCHANGED unitVars

\* The caller has the result; the call's locals are gone
Return ==
  /\ pc = "done"
  /\ pc' = "idle"
  /\ associates' = <<>>
  /\ birthdaysFound' = <<>>
  /\ notificationSent' = FALSE
  /\ errors' = <<>>
  /\ today' = NULL
  /\ message' = <<>>
  /\ timestamp' = 0
  /\ attempt' = 0
  /\ smsResult' = NULL
  /\ clock' = 0
  /\ initCalls' = <<>>
  /\ parseLog' = <<>>
  /\ matcherCalls' = 0
  /\ notifyCalls' = 0
  /\ attemptLog' = <<>>
  /\ sleeps' = <<>>
  /\ result' = NULL
  /\ UNCHANGED <<env, service>>
  /\ UNCHANGED unitVars

Next ==
  \/ Initialize
  \/ SetEnv
  \/ StartCheck
  \/ EnsureInitialized
  \/ Ingest
  \/ Match
  \/ MatchThrows
  \/ BeginNotification
  \/ NotificationRejects
  \/ SendAttempt
  \/ Delay
  \/ HandleResult
  \/ Return

Spec == Init /\ [][Next]_vars

\* ========================================== one service, run after run
\* The steps of performDailyCheck on a service nobody else touches
RunNext ==
  \/ StartCheck
  \/ EnsureInitialized
  \/ Ingest
  \/ Match
  \/ MatchThrows
  \/ BeginNotification
  \/ NotificationRejects
  \/ SendAttempt
  \/ Delay
  \/ HandleResult
  \/ Return

\* Every awaited call settles (parseFile, sendBirthdayNotification, axios.post
\* and the timer of delay) and the code between two awaits runs on; when the
\* next call of performDailyCheck is made, if ever, is the caller's business.
RunFairness ==
  /\ WF_vars(EnsureInitialized)
  /\ WF_vars(Ingest)
  /\ WF_vars(Match \/ MatchThrows)
  /\ WF_vars(BeginNotification \/ NotificationRejects)
  /\ WF_vars(SendAttempt)
  /\ WF_vars(Delay)
  /\ WF_vars(HandleResult)

SpecRun == Init /\ [][RunNext]_vars /\ RunFairness

\* ================================================================ Scheduler
\* Largest number of calls made on one Scheduler in the model, by its
\* callers and by node-cron.
MaxCalls == 3

\* Scheduler.validateTimeFormat: /^([0-1][0-9]|2[0-3]):([0-5][0-9])$/
validateTimeFormat(time) ==
  /\ Len(time) = 5
  /\ \/ time[1] \in {"0", "1"} /\ time[2] \in Digits
     \/ time[1] = "2" /\ time[2] \in {"0", "1", "2", "3"}
  /\ time[3] = ":"
  /\ time[4] \in {"0", "1", "2", "3", "4", "5"}
  /\ time[5] \in Digits

TwentyFiveOClock == <<"2", "5", ":", "0", "0">>

\* The scheduledTime options the model constructs a Scheduler with
ScheduledTimes == {NineOClock, TwentyFiveOClock}

\* The environments a Scheduler lives in; the environment does not change
\* while it lives, so every service it creates is initialized alike.
SchedulerEnvs ==
  {BaseEnv, [BaseEnv EXCEPT !.RECIPIENT_MOBILE_NUMBER = ShortNumber]}

\* new BirthdayCheckService(logger) followed by its initialize(): the fields
\* of the new object when initialize has returned or thrown
InitializedService(e) ==
  LET c == loadFromEnvironment(e) IN
  [config |-> c,
   excelParser |-> IF validate(c) = <<>> THEN "ExcelParser" ELSE "null",
   dateMatcher |-> IF validate(c) = <<>> THEN "DateMatcher" ELSE "null",
   smsService |-> IF initializeError(e) = NULL THEN NewSMSService(c) ELSE NULL]

\* Scheduler.initialize: the error it throws, NULL if it returns
schedulerInitializeError ==
  IF ~validateTimeFormat(scheduledTime)
  THEN Err("Invalid scheduled time format", 0, scheduledTime)
  ELSE initializeError(env)

\* Scheduler.initialize: what it assigns before it returns or throws.  The
\* code up to its only await, BirthdayCheckService.initialize included, runs
\* without interruption, and nothing is assigned after the await.
schedulerInitialize ==
  IF ~validateTimeFormat(scheduledTime)
  THEN UNCHANGED <<birthdayCheckService, service>>
  ELSE /\ birthdayCheckService' =
            [id |-> IF birthdayCheckService = NULL THEN 1
                    ELSE birthdayCheckService.id + 1]
       /\ config' = InitializedService(env).config
       /\ excelParser' = InitializedService(env).excelParser
       /\ dateMatcher' = InitializedService(env).dateMatcher
       /\ smsService' = InitializedService(env).smsService

\* The indices of the calls of performDailyCheck that have not returned
InFlight(rs) == {i \in 1..Len(rs) : rs[i].pc # "returned"}

\* performDailyCheck is called on this.birthdayCheckService.  this.config is
\* set on every service the Scheduler holds, so step 1 awaits nothing; with
\* no parser step 2 fails on the spot and the call returns its result,
\* otherwise the call waits for parseFile.
performDailyCheckCalled(trigger) ==
  runs' = Append(runs,
            [trigger |-> trigger,
             service |-> birthdayCheckService.id,
             pc |-> IF excelParser = "null" THEN "returned" ELSE "ingest",
             attempt |-> 0,
             sent |-> FALSE,
             during |-> {i \in InFlight(runs) :
                           runs[i].service = birthdayCheckService.id},
             afterStop |-> afterStop])

\* a start() without the `if (this.isRunning)` check
alreadyRunning_unchecked(running) == FALSE

\* Scheduler.start: `if (this.isRunning) { ...; return; }`
alreadyRunning(running) == running

\* Scheduler.start from its isRunning check to its end: cron.schedule
\* creates a task that is scheduled at once
scheduleJob ==
  IF alreadyRunning(isRunning)
  THEN UNCHANGED <<cronJob, isRunning, cronJobs>>
  ELSE /\ cronJobs' = Append(cronJobs, "scheduled")
       /\ cronJob' = [job |-> Len(cronJobs) + 1]
       /\ isRunning' = TRUE

\* What no call on the Scheduler touches
SchedulerFrame ==
  /\ UNCHANGED <<env, pc, locals, today, delivery, clock, history, result>>
  /\ UNCHANGED <<matcherVars, formatVars, parseVars, keyVars, dateVars,
                 hostVars, notifyVars, loggerVars>>
  /\ UNCHANGED scheduledTime

\* A caller calls scheduler.initialize()
CallInitialize ==
  /\ Len(callLog) < MaxCalls
  /\ callLog' = Append(callLog, "initialize")
  /\ schedulerInitialize
  /\ UNCHANGED <<cronJob, isRunning, cronJobs, suspended, runs, afterStop>>
  /\ SchedulerFrame

\* A caller calls scheduler.start(): with no service yet the call initializes
\* and waits at its await; otherwise it runs to its end
CallStart ==
  /\ Len(callLog) < MaxCalls
  /\ callLog' = Append(callLog, "start")
  /\ afterStop' = FALSE
  /\ IF birthdayCheckService = NULL
     THEN /\ schedulerInitialize
          /\ suspended' = Append(suspended,
                [call |-> "start", error |-> schedulerInitializeError])
          /\ UNCHANGED <<cronJob, isRunning, cronJobs>>
     ELSE /\ scheduleJob
          /\ UNCHANGED <<birthdayCheckService, service, suspended>>
  /\ UNCHANGED runs
  /\ SchedulerFrame

\* A caller calls scheduler.stop()
CallStop ==
  /\ Len(callLog) < MaxCalls
  /\ callLog' = Append(callLog, "stop")
  /\ IF ~isRunning
     THEN UNCHANGED <<cronJob, isRunning, cronJobs, afterStop>>
     ELSE /\ cronJobs' = IF cronJob # NULL
                         THEN [cronJobs EXCEPT ![cronJob.job] = "stopped"]
                         ELSE cronJobs
          /\ cronJob' = NULL
          /\ isRunning' = FALSE
          /\ afterStop' = TRUE
  /\ UNCHANGED <<birthdayCheckService, service, suspended, runs>>
  /\ SchedulerFrame

\* A caller calls scheduler.runNow(): with no service yet the call
\* initializes and waits at its await; otherwise it calls performDailyCheck
CallRunNow ==
  /\ Len(callLog) < MaxCalls
  /\ callLog' = Append(callLog, "runNow")
  /\ IF birthdayCheckService = NULL
     THEN /\ schedulerInitialize
          /\ suspended' = Append(suspended,
                [call |-> "runNow", error |-> schedulerInitializeError])
          /\ UNCHANGED runs
     ELSE /\ performDailyCheckCalled("manual")
          /\ UNCHANGED <<birthdayCheckService, service, suspended>>
  /\ UNCHANGED <<cronJob, isRunning, cronJobs, afterStop>>
  /\ SchedulerFrame

\* The initialize() a start or a runNow awaited has settled and the call goes
\* on: it rethrows the error, or starts the job, or calls performDailyCheck.
\* The waiting calls go on in the order in which they began to wait.
Resume ==
  /\ suspended # <<>>
  /\ suspended' = Tail(suspended)
  /\ IF Head(suspended).error # NULL
     THEN UNCHANGED <<cronJob, isRunning, cronJobs, runs>>
     ELSE IF Head(suspended).call = "start"
     THEN scheduleJob /\ UNCHANGED runs
     ELSE /\ performDailyCheckCalled("manual")
          /\ UNCHANGED <<cronJob, isRunning, cronJobs>>
  /\ UNCHANGED <<birthdayCheckService, service, callLog, afterStop>>
  /\ SchedulerFrame

\* node-cron fires a scheduled task: its callback calls executeTask, which
\* calls performDailyCheck
Tick ==
  /\ Len(callLog) < MaxCalls
  /\ \E j \in 1..Len(cronJobs) : cronJobs[j] = "scheduled"
  /\ callLog' = Append(callLog, "executeTask")
  /\ performDailyCheckCalled("cron")
  /\ UNCHANGED <<birthdayCheckService, service, cronJob, isRunning, cronJobs,
                 suspended, afterStop>>
  /\ SchedulerFrame

\* Steps 2 to 4 of performDailyCheck: whether the call gets as far as
\* sendWithRetry, for each thing the workbook and the clock can do
reachesDelivery(filePath) ==
  {~out.threw /\ shouldNotify(findBirthdaysToday(Array(out.associates), now)) :
     out \in parseFile(filePath), now \in Todays}

\* A call of performDailyCheck goes on after parseFile: steps 2 and 3, and
\* step 4 up to the first sendSMS
RunIngest ==
  /\ \E i \in 1..Len(runs) :
       /\ runs[i].pc = "ingest"
       /\ \E delivers \in reachesDelivery(config.excelFilePath) :
            runs' = [runs EXCEPT ![i] =
              IF delivers /\ smsService # NULL
              THEN [@ EXCEPT !.pc = "attempt", !.attempt = 1]
              ELSE [@ EXCEPT !.pc = "returned"]]
  /\ UNCHANGED <<birthdayCheckService, service, cronJob, isRunning, cronJobs,
                 suspended, callLog, afterStop>>
  /\ SchedulerFrame

\* sendWithRetry after one sendSMS: where the call stands for each thing
\* the endpoint can do
afterAttempt(attemptNo) ==
  {IF sendSMS(o).ok THEN "sent"
   ELSE IF catchDecision(sendSMS(o).error, attemptNo) = "fail" THEN "failed"
   ELSE "sleep" : o \in AxiosOutcomes}

\* A call of performDailyCheck in sendWithRetry: one sendSMS
RunAttempt ==
  /\ \E i \in 1..Len(runs) :
       /\ runs[i].pc = "attempt"
       /\ \E outcome \in afterAttempt(runs[i].attempt) :
            runs' = [runs EXCEPT ![i] =
              IF outcome = "sleep"
              THEN [@ EXCEPT !.pc = "sleep"]
              ELSE [@ EXCEPT !.pc = "returned", !.sent = (outcome = "sent")]]
  /\ UNCHANGED <<birthdayCheckService, service, cronJob, isRunning, cronJobs,
                 suspended, callLog, afterStop>>
  /\ SchedulerFrame

\* A call of performDailyCheck in sendWithRetry: the backoff sleep is over
RunDelay ==
  /\ \E i \in 1..Len(runs) :
       /\ runs[i].pc = "sleep"
       /\ runs' = [runs EXCEPT ![i] =
                     [@ EXCEPT !.pc = "attempt", !.attempt = @ + 1]]
  /\ UNCHANGED <<birthdayCheckService, service, cronJob, isRunning, cronJobs,
                 suspended, callLog, afterStop>>
  /\ SchedulerFrame

\* new Scheduler({ scheduledTime, logger })
SchedulerInit ==
  /\ env \in SchedulerEnvs
  /\ ServiceConstructed
  /\ MatcherOff
  /\ FormatOff
  /\ ParseOff
  /\ KeysOff
  /\ DateOff
  /\ HostUTC
  /\ NotifyOff
  /\ LoggerOff
  /\ scheduledTime \in ScheduledTimes
  /\ birthdayCheckService = NULL
  /\ cronJob = NULL
  /\ isRunning = FALSE
  /\ cronJobs = <<>>
  /\ suspended = <<>>
  /\ runs = <<>>
  /\ callLog = <<>>
  /\ afterStop = FALSE

SchedulerNext ==
  \/ CallInitialize
  \/ CallStart
  \/ CallStop
  \/ CallRunNow
  \/ Resume
  \/ Tick
  \/ RunIngest
  \/ RunAttempt
  \/ RunDelay

SpecScheduler == SchedulerInit /\ [][SchedulerNext]_vars

\* =================================================================== Logger
\* Largest maxFiles option a Logger of the model is made with.
MaxKept == 2

\* Largest number of log calls made on one Logger in the model.
MaxWrites == 5

\* Largest number of UTC days one Logger lives through in the model.
MaxDays == 3

\* The size of one log entry, and the maxFileSize option of the model's
\* Logger, both in entries
EntrySize == 1
RotateAt == 2

\* Logger.getCurrentLogFilePath: birthday-system-<date>.log
currentLogFile(date) == [date |-> date, rotatedAt |-> 0]

\* Logger.rotateLogFile: birthday-system-<date>-<timestamp>.log
rotatedLogFile(date, time) == [date |-> date, rotatedAt |-> time]

\* The file of a directory with the given name, as a set (empty: none)
fileNamed(dir, name) == {f \in dir : f.name = name}

\* Logger.cleanupOldLogs: the .log files sorted by modification time, newest
\* first, and all but the first `keep` of them deleted
cleanupOldLogs(dir, keep) ==
  IF Cardinality(dir) > keep
  THEN {f \in dir : Cardinality({g \in dir : g.mtime > f.mtime}) < keep}
  ELSE dir

\* Logger.rotateIfNeeded and rotateLogFile: a current file of maxFileSize or
\* more is renamed, which keeps its modification time, and the directory is
\* cleaned up
rotateIfNeeded(dir, date, time, limit, keep) ==
  LET current == fileNamed(dir, currentLogFile(date)) IN
  IF current # {} /\ (\E f \in current : f.size >= limit)
  THEN cleanupOldLogs(
         (dir \ current)
           \cup {[f EXCEPT !.name = rotatedLogFile(date, time)] : f \in current},
         keep)
  ELSE dir

\* fs.appendFileSync: the file grows, or is created, and is modified now
appendFileSync(dir, name, time) ==
  IF fileNamed(dir, name) = {}
  THEN dir \cup {[name |-> name, size |-> EntrySize, mtime |-> time]}
  ELSE {IF f.name = name
        THEN [f EXCEPT !.size = @ + EntrySize, !.mtime = time]
        ELSE f : f \in dir}

\* Logger.writeToFile
writeToFile(dir, date, time, limit, keep) ==
  appendFileSync(rotateIfNeeded(dir, date, time, limit, keep),
                 currentLogFile(date), time)

\* What no call on the Logger touches
LoggerFrame ==
  /\ UNCHANGED pipelineVars
  /\ UNCHANGED <<matcherVars, formatVars, parseVars, keyVars, dateVars,
                 hostVars, notifyVars, schedulerVars>>
  /\ UNCHANGED <<maxFiles, maxFileSize>>

\* Logger.log: one entry is written; time has passed since the last one
LogCall ==
  /\ logTime < MaxWrites
  /\ logTime' = logTime + 1
  /\ logDir' = writeToFile(logDir, logDate, logTime', maxFileSize, maxFiles)
  /\ UNCHANGED logDate
  /\ LoggerFrame

\* Midnight UTC passes
NextDay ==
  /\ logDate < MaxDays - 1
  /\ logDate' = logDate + 1
  /\ UNCHANGED <<logDir, logTime>>
  /\ LoggerFrame

\* new Logger({ logDir, maxFileSize, maxFiles }) on an empty directory
LoggerInit ==
  /\ PipelineIdle
  /\ MatcherOff
  /\ FormatOff
  /\ ParseOff
  /\ KeysOff
  /\ DateOff
  /\ HostUTC
  /\ NotifyOff
  /\ SchedulerOff
  /\ maxFiles \in 1..MaxKept
  /\ maxFileSize = RotateAt
  /\ logDir = {}
  /\ logDate = 0
  /\ logTime = 0

LoggerNext == LogCall \/ NextDay

SpecLogger == LoggerInit /\ [][LoggerNext]_vars

\* ============================= SMSService.sendBirthdayNotification alone
\* The `associates` arguments of a caller of its own: none, an empty list,
\* and the lists the pipeline can hand over
NotifyLists == {NULL} \cup {Array(l) : l \in AssociateLists}

\* An SMSService constructed from the configuration of the tests; the call
\* is about to be made
NotifyInit ==
  /\ env = BaseEnv
  /\ config = loadFromEnvironment(BaseEnv)
  /\ excelParser = "ExcelParser"
  /\ dateMatcher = "DateMatcher"
  /\ smsService = NewSMSService(config)
  /\ NoCall("notify")
  /\ MatcherOff
  /\ FormatOff
  /\ ParseOff
  /\ KeysOff
  /\ DateOff
  /\ HostUTC
  /\ nAssociates \in NotifyLists
  /\ SchedulerOff
  /\ LoggerOff

\* sendBirthdayNotification(associates): it takes the timestamp, and either
\* returns at once or formats the message and enters sendWithRetry with
\* attempt = 1
SendBirthdayNotification ==
  /\ pc = "notify"
  /\ notifyCalls' = notifyCalls + 1
  /\ timestamp' = clock
  /\ IF noAssociates(nAssociates)
     THEN /\ smsResult' = noAssociatesResult(timestamp')
          /\ pc' = "result"
          /\ UNCHANGED <<message, attempt>>
     ELSE /\ message' = formatMessage(nAssociates)
          /\ attempt' = 1
          /\ pc' = "attempt"
          /\ UNCHANGED smsResult
  /\ UNCHANGED <<env, service, locals, today, clock, initCalls, parseLog,
                 matcherCalls, attemptLog, sleeps, result>>
  /\ UNCHANGED unitVars

NotifyNext == SendBirthdayNotification \/ SendAttempt \/ Delay

SpecNotify == NotifyInit /\ [][NotifyNext]_vars

\* ===================================== DateMatcher.findBirthdaysOnDate alone
\* Dates of birth a record handed to the matcher can carry: dates (two of
\* them on the same day of different years), none, an invalid Date, a text.
MatchBirthValues ==
  BirthDates \cup {[year |-> 1996, month |-> 2, day |-> 29],
                   NULL, InvalidDate, TextDate}

\* The `associates` arguments: nothing, a value that is no array, or an
\* array of records and nulls.
MatchLists ==
  {NULL, NotAnArray} \cup
  {Array(l) : l \in UNION {
     {[i \in 1..n |-> IF f[i] = NULL THEN NULL
                      ELSE Associate(f[i].name, f[i].dateOfBirth, i + 1)] :
        f \in [1..n -> {NULL} \cup [name : Names,
                                    dateOfBirth : MatchBirthValues]]} :
     n \in 0..MaxAssociates}}

\* The `date` arguments: dates (two of them on the same day of different
\* years), nothing, an invalid Date, a text.
MatchDates ==
  Todays \cup {[year |-> 2024, month |-> 2, day |-> 28],
               NULL, InvalidDate, TextDate}

MatchInit ==
  /\ PipelineIdle
  /\ FormatOff
  /\ ParseOff
  /\ KeysOff
  /\ DateOff
  /\ HostUTC
  /\ NotifyOff
  /\ SchedulerOff
  /\ LoggerOff
  /\ mPc = "ready"
  /\ mAssociates \in MatchLists
  /\ mDate \in MatchDates
  /\ mResult = <<>>

\* findBirthdaysOnDate(associates, date) is called and returns
CallFindBirthdaysOnDate ==
  /\ mPc = "ready"
  /\ mResult' = findBirthdaysOnDate(mAssociates, mDate)
  /\ mPc' = "returned"
  /\ UNCHANGED <<mAssociates, mDate, pipelineVars, formatVars, parseVars,
                 keyVars, dateVars, hostVars, notifyVars,
                 schedulerVars, loggerVars>>

MatchNext == CallFindBirthdaysOnDate

SpecMatch == MatchInit /\ [][MatchNext]_vars

\* ============================================================== ExcelParser
\* `!value`: undefined, null, the empty string, 0 and NaN are falsy
falsy(value) ==
  value = NULL \/ value = Str(<<>>) \/ value = Num(0) \/ value = NaN

isLeapYear(y) == (y % 4 = 0 /\ y % 100 # 0) \/ y % 400 = 0

daysInMonth(y, m) ==
  IF m = 2 THEN (IF isLeapYear(y) THEN 29 ELSE 28)
  ELSE IF m \in {4, 6, 9, 11} THEN 30 ELSE 31

\* Days from 1970-01-01 to day d of month m (1..12) of year y, and the
\* calendar date that many days after 1970-01-01 (proleptic Gregorian)
DayFromDate(y, m, d) ==
  LET yy == IF m <= 2 THEN y - 1 ELSE y
      era == yy \div 400
      yoe == yy - era * 400
      doy == ((153 * (IF m > 2 THEN m - 3 ELSE m + 9) + 2) \div 5) + d - 1
      doe == yoe * 365 + (yoe \div 4) - (yoe \div 100) + doy
  IN era * 146097 + doe - 719468

DateFromDay(t) ==
  LET z == t + 719468
      era == z \div 146097
      doe == z - era * 146097
      yoe == (doe - (doe \div 1460) + (doe \div 36524) - (doe \div 146096))
               \div 365
      doy == doe - (365 * yoe + (yoe \div 4) - (yoe \div 100))
      mp == (5 * doy + 2) \div 153
      m == IF mp < 10 THEN mp + 3 ELSE mp - 9
  IN [year |-> yoe + era * 400 + (IF m <= 2 THEN 1 ELSE 0),
      month |-> m,
      day |-> doy - ((153 * mp + 2) \div 5) + 1]

\* MakeDay of the language: the calendar date of day d of month m of year
\* y, where m and d may lie outside their ranges and carry over
MakeDay(y, m, d) ==
  DateFromDay(DayFromDate(y + ((m - 1) \div 12), ((m - 1) % 12) + 1, 1) + d - 1)

\* new Date(year, monthIndex, day): local time; a year of 0..99 means
\* 1900 + year
newDate(year, monthIndex, day) ==
  MakeDay(IF year \in 0..99 THEN 1900 + year ELSE year, monthIndex + 1, day)

\* Time values are counted in hours: msPerDay is 24 of them
HoursPerDay == 24

\* a conversion that drops the fraction towards zero
excelSerialToDate_truncated(serial) ==
  IF serial \in {NaN, Infinity} THEN InvalidDate
  ELSE MakeDay(1899, 12, 30 + (IF serial.number < 0 /\ serial.quarter > 0
                               THEN serial.number + 1 ELSE serial.number))

\* a conversion that counts from January 1, 1900
excelSerialToDate_from1900(serial) ==
  IF serial \in {NaN, Infinity} THEN InvalidDate
  ELSE LET sinceEpoch == ((4 * serial.number + serial.quarter) * HoursPerDay) \div 4
       IN MakeDay(1900, 1, 1 + (sinceEpoch \div HoursPerDay))

\* ExcelParser.excelSerialToDate: the local date of the instant that lies
\* serial * msPerDay after local midnight of December 30, 1899 (the host's
\* offset from UTC is taken to be the same at both instants)
excelSerialToDate(serial) ==
  IF serial \in {NaN, Infinity} THEN InvalidDate
  ELSE LET sinceEpoch == ((4 * serial.number + serial.quarter) * HoursPerDay) \div 4
       IN MakeDay(1899, 12, 30 + (sinceEpoch \div HoursPerDay))

\* String.prototype.split(sep) for a one-character separator
RECURSIVE split(_, _)
split(text, sep) ==
  IF \A i \in 1..Len(text) : text[i] # sep THEN <<text>>
  ELSE LET k == CHOOSE i \in 1..Len(text) :
                  text[i] = sep /\ \A j \in 1..(i - 1) : text[j] # sep
       IN <<SubSeq(text, 1, k - 1)>> \o split(SubSeq(text, k + 1, Len(text)), sep)

\* \d{lo,hi}
isDigits(field, lo, hi) ==
  /\ Len(field) >= lo
  /\ Len(field) <= hi
  /\ \A i \in 1..Len(field) : field[i] \in Digits

DigitValue(c) ==
  CASE c = "0" -> 0 [] c = "1" -> 1 [] c = "2" -> 2 [] c = "3" -> 3
    [] c = "4" -> 4 [] c = "5" -> 5 [] c = "6" -> 6 [] c = "7" -> 7
    [] c = "8" -> 8 [] c = "9" -> 9

\* parseInt of a string of digits
RECURSIVE parseInt(_)
parseInt(field) ==
  IF field = <<>> THEN 0
  ELSE 10 * parseInt(SubSeq(field, 1, Len(field) - 1))
         + DigitValue(field[Len(field)])

\* The three datePatterns of parseDate; a match is the three groups
\* /^(\d{1,2})\/(\d{1,2})\/(\d{4})$/
matchSlash(text) ==
  LET g == split(text, "/") IN
  IF Len(g) = 3 /\ isDigits(g[1], 1, 2) /\ isDigits(g[2], 1, 2)
       /\ isDigits(g[3], 4, 4)
  THEN g ELSE <<>>

\* /^(\d{4})-(\d{1,2})-(\d{1,2})$/
matchYearFirst(text) ==
  LET g == split(text, "-") IN
  IF Len(g) = 3 /\ isDigits(g[1], 4, 4) /\ isDigits(g[2], 1, 2)
       /\ isDigits(g[3], 1, 2)
  THEN g ELSE <<>>

\* /^(\d{1,2})-(\d{1,2})-(\d{4})$/
matchYearLast(text) ==
  LET g == split(text, "-") IN
  IF Len(g) = 3 /\ isDigits(g[1], 1, 2) /\ isDigits(g[2], 1, 2)
       /\ isDigits(g[3], 4, 4)
  THEN g ELSE <<>>

\* parseMatchedDate: `patternStr.includes('YYYY')` looks for the letters in
\* the text of the regular expression, which holds none (they stand only in
\* the comments beside the patterns), so the year-first branch is never
\* taken and every match goes through the first/second/year branch.
includesYYYY(patternStr) == FALSE

\* a heuristic that never reads the first number as the day
parseMatchedDate_monthFirst(match, patternStr) ==
  newDate(parseInt(match[3]), parseInt(match[1]) - 1, parseInt(match[2]))

\* a heuristic that reads a second number above 12 as the month
parseMatchedDate_secondIsMonth(match, patternStr) ==
  LET first == parseInt(match[1])
      second == parseInt(match[2])
      year == parseInt(match[3])
  IN IF first > 12 THEN newDate(year, second - 1, first)
     ELSE IF second > 12 THEN newDate(year, second - 1, first)
     ELSE newDate(year, first - 1, second)

parseMatchedDate(match, patternStr) ==
  IF includesYYYY(patternStr) /\ patternStr = "/^(\\d{4})"
  THEN newDate(parseInt(match[1]), parseInt(match[2]) - 1, parseInt(match[3]))
  ELSE LET first == parseInt(match[1])
           second == parseInt(match[2])
           year == parseInt(match[3])
       IN IF first > 12 THEN newDate(year, second - 1, first)
          ELSE IF second > 12 THEN newDate(year, first - 1, second)
          ELSE newDate(year, first - 1, second)

\* ------------------------------------------- new Date(string) of the host
\* `new Date(trimmed)` is the date parser of Node's engine: a date in the
\* ISO layout is read first, and what that leaves over goes to the legacy
\* reader.  The strings of the model hold digits, "/", "-", white space and
\* words that are no month, zone or am/pm name, and no time of day.
Symbols == {"/", "-", "+", "(", ")", ":", ".", ","}

NumberToken(n, length) == [type |-> "number", number |-> n, length |-> length]
SymbolToken(c) == [type |-> "symbol", symbol |-> c]
WordToken == [type |-> "word"]
SpaceToken == [type |-> "space"]
EndOfInput == [type |-> "end"]

CharClass(c) ==
  IF c \in Digits THEN "number"
  ELSE IF c \in WhiteSpace THEN "space"
  ELSE IF c \in Symbols THEN "symbol"
  ELSE "word"

\* Length of the longest prefix of text whose characters are all of one class
RECURSIVE RunLength(_, _)
RunLength(text, class) ==
  IF text = <<>> \/ CharClass(Head(text)) # class THEN 0
  ELSE 1 + RunLength(Tail(text), class)

\* The scanner: numbers, words and runs of white space are one token each,
\* every other character is a token of its own
RECURSIVE Tokens(_)
Tokens(text) ==
  IF text = <<>> THEN <<>>
  ELSE LET class == CharClass(Head(text))
           n == IF class = "symbol" THEN 1 ELSE RunLength(text, class)
           token == CASE class = "number" ->
                           NumberToken(parseInt(SubSeq(text, 1, n)), n)
                      [] class = "symbol" -> SymbolToken(Head(text))
                      [] class = "space" -> SpaceToken
                      [] OTHER -> WordToken
       IN <<token>> \o Tokens(SubSeq(text, n + 1, Len(text)))

IsFixedNumber(token, length) ==
  token.type = "number" /\ token.length = length
IsSymbol(token, c) == token.type = "symbol" /\ token.symbol = c
IsMonth(x) == x \in 1..12
IsDay(x) == x \in 1..31

\* The ISO reader: yyyy[-MM[-DD]] and nothing after it is an ISO date; on
\* anything else the numbers read so far are kept and the tokens from the
\* one that did not fit go to the legacy reader.
ParseES5DateTime(tokens) ==
  LET Peek(k) == IF k <= Len(tokens) THEN tokens[k] ELSE EndOfInput
      From(k) == SubSeq(tokens, k, Len(tokens))
      Legacy(day, k) == [iso |-> FALSE, day |-> day, rest |-> From(k)]
      Iso(day) == [iso |-> TRUE, day |-> day, rest |-> <<>>]
      End(day, k) == IF Peek(k) = EndOfInput THEN Iso(day) ELSE Legacy(day, k)
  IN IF ~IsFixedNumber(Peek(1), 4) THEN Legacy(<<>>, 1)
     ELSE LET year == Peek(1).number IN
          IF ~IsSymbol(Peek(2), "-") THEN End(<<year>>, 2)
          ELSE IF ~IsFixedNumber(Peek(3), 2) \/ ~IsMonth(Peek(3).number)
          THEN Legacy(<<year>>, 3)
          ELSE LET month == Peek(3).number IN
               IF ~IsSymbol(Peek(4), "-") THEN End(<<year, month>>, 4)
               ELSE IF ~IsFixedNumber(Peek(5), 2) \/ ~IsDay(Peek(5).number)
               THEN Legacy(<<year, month>>, 5)
               ELSE End(<<year, month, Peek(5).number>>, 6)

\* The legacy reader: up to three numbers, each with the "-" after it; a
\* word after a number, a word right before a number, a fourth number, and
\* a sign or ")" after a number make the string no date; other characters
\* are passed over.
RECURSIVE LegacyParse(_, _, _)
LegacyParse(day, tokens, hasReadNumber) ==
  IF tokens = <<>> THEN [ok |-> TRUE, day |-> day]
  ELSE LET token == Head(tokens)
           next == IF Len(tokens) >= 2 THEN tokens[2] ELSE EndOfInput
       IN CASE token.type = "number" ->
                 IF Len(day) = 3 THEN [ok |-> FALSE, day |-> day]
                 ELSE LegacyParse(Append(day, token.number),
                                  IF IsSymbol(next, "-")
                                  THEN Tail(Tail(tokens)) ELSE Tail(tokens),
                                  TRUE)
            [] token.type = "word" ->
                 IF hasReadNumber \/ next.type = "number"
                 THEN [ok |-> FALSE, day |-> day]
                 ELSE LegacyParse(day, Tail(tokens), hasReadNumber)
            [] token.type = "symbol" ->
                 IF token.symbol \in {"+", "-", ")"} /\ hasReadNumber
                 THEN [ok |-> FALSE, day |-> day]
                 ELSE LegacyParse(day, Tail(tokens), hasReadNumber)
            [] OTHER -> LegacyParse(day, Tail(tokens), hasReadNumber)

\* Minutes in a day, for the host's offset from UTC
MinutesPerDay == 1440

\* The day composer: missing numbers count as 1; the numbers are year, month,
\* day for an ISO date or when the first is no day number, and month, day,
\* year otherwise; a year of 0..49 is 20yy and one of 50..99 is 19yy unless
\* the date is ISO; a month outside 1..12 or a day outside 1..31 is no date,
\* while a day beyond the end of its month carries over.  An ISO date is
\* midnight UTC, any other date is local midnight.
DayComposerWrite(day, iso, offset) ==
  IF Len(day) < 1 THEN InvalidDate
  ELSE LET comp == [i \in 1..3 |-> IF i <= Len(day) THEN day[i] ELSE 1]
           ymd == iso \/ ~IsDay(comp[1])
           y == IF ymd THEN comp[1] ELSE comp[3]
           month == IF ymd THEN comp[2] ELSE comp[1]
           d == IF ymd THEN comp[3] ELSE comp[2]
           year == IF iso THEN y
                   ELSE IF y \in 0..49 THEN y + 2000
                   ELSE IF y \in 50..99 THEN y + 1900
                   ELSE y
       IN IF ~IsMonth(month) \/ ~IsDay(d) THEN InvalidDate
          ELSE IF iso THEN MakeDay(year, month, d + (offset \div MinutesPerDay))
          ELSE MakeDay(year, month, d)

\* new Date(text), by its local calendar fields, on a host whose local time
\* is `offset` minutes ahead of UTC
nativeDateParse(text, offset) ==
  LET es5 == ParseES5DateTime(Tokens(text)) IN
  IF es5.iso THEN DayComposerWrite(es5.day, TRUE, offset)
  ELSE LET legacy == LegacyParse(es5.day, es5.rest, es5.day # <<>>) IN
       IF legacy.ok THEN DayComposerWrite(legacy.day, FALSE, offset)
       ELSE InvalidDate

\* Offsets from UTC of the hosts of the model, in minutes: New York in
\* winter, UTC, India
UtcOffsets == {-300, 0, 330}

\* ExcelParser.parseDate: a Date (by its local calendar fields), or NULL
parseDate(value) ==
  IF falsy(value) THEN NULL
  ELSE IF instanceofDate(value)
  THEN (IF isNaNTime(value) THEN NULL ELSE value)
  ELSE IF isNumber(value)
  THEN LET date == excelSerialToDate(value)
       IN IF isNaNTime(date) THEN NULL ELSE date
  ELSE IF isString(value)
  THEN LET trimmed == trim(value.text)
           parsed == nativeDateParse(trimmed, utcOffset)
       IN IF ~isNaNTime(parsed) THEN parsed
          ELSE IF matchSlash(trimmed) # <<>>
          THEN parseMatchedDate(matchSlash(trimmed), "/^(\\d{1,2})\\/")
          ELSE IF matchYearFirst(trimmed) # <<>>
          THEN parseMatchedDate(matchYearFirst(trimmed), "/^(\\d{4})")
          ELSE IF matchYearLast(trimmed) # <<>>
          THEN parseMatchedDate(matchYearLast(trimmed), "/^(\\d{1,2})-")
          ELSE NULL
  ELSE NULL

\* ------------------------------------------------ parseDate on its own
\* Largest whole part, in either direction, of the small day counts handed
\* to parseDate.
MaxSerial == 3

\* One- and two-digit fields and four-digit years of the date texts
ShortFields ==
  {<<"0", "0">>, <<"0", "1">>, <<"0", "2">>, <<"0", "5">>, <<"1", "2">>,
   <<"1", "3">>, <<"1", "5">>, <<"3", "0">>, <<"3", "1">>, <<"4", "5">>,
   <<"3">>}
YearFields ==
  {<<"1", "9", "8", "8">>, <<"1", "9", "9", "0">>, <<"2", "0", "0", "0">>}

\* a/b/yyyy and a-b-yyyy
YearLastTexts ==
  {a \o <<sep>> \o b \o <<sep>> \o y :
     a \in ShortFields, b \in ShortFields, sep \in {"/", "-"}, y \in YearFields}

\* yyyy-m-d
YearFirstTexts ==
  {y \o <<"-">> \o m \o <<"-">> \o d :
     y \in {<<"1", "9", "8", "5">>, <<"2", "0", "0", "0">>},
     m \in {<<"0", "0">>, <<"0", "2">>, <<"0", "3">>, <<"1", "3">>, <<"3">>},
     d \in {<<"0", "5">>, <<"2", "2">>, <<"3", "0">>, <<"4", "5">>, <<"5">>}}

\* Texts that are no date, and a number as the text { raw: false } gives
OtherTexts ==
  {<<>>, <<"n", "/", "a">>, <<"n", "o", "t", "-", "a", "-", "d", "a", "t", "e">>,
   <<"a", "b", "c", "/", "d", "e", "f", "/", "g", "h", "i", "j">>,
   <<"3", "3", "6", "5", "8">>, <<" ", "0", "1", "/", "1", "5", "/", "1",
   "9", "9", "0", " ">>}

\* Day counts: small ones around 0 in quarters of a day, the one of the
\* parser's tests, and the numbers that are no count
Serials ==
  {Frac(n, q) : n \in (0 - MaxSerial)..MaxSerial, q \in 0..3}
    \cup {Num(33658), NaN, Infinity}

\* Values a cell handed to parseDate takes
CellValues ==
  {Str(t) : t \in YearLastTexts \cup YearFirstTexts \cup OtherTexts}
    \cup Serials \cup BirthDates \cup {NULL, InvalidDate, NotAnArray}

DateInit ==
  /\ PipelineIdle
  /\ MatcherOff
  /\ FormatOff
  /\ ParseOff
  /\ KeysOff
  /\ NotifyOff
  /\ SchedulerOff
  /\ LoggerOff
  /\ utcOffset \in UtcOffsets
  /\ dPc = "ready"
  /\ dValue \in CellValues
  /\ dResult = NULL

CallParseDate ==
  /\ dPc = "ready"
  /\ dResult' = parseDate(dValue)
  /\ dPc' = "returned"
  /\ UNCHANGED <<dValue, hostVars, pipelineVars, matcherVars, formatVars,
                 parseVars, keyVars, notifyVars,
                 schedulerVars, loggerVars>>

DateNext == CallParseDate

SpecDate == DateInit /\ [][DateNext]_vars

\* --------------------------------------------- the row loop of parseFile
\* this.log('WARN', `Row ${rowNumber}: Missing or invalid name, skipping row`)
MissingName(rowNumber) ==
  [level |-> "WARN", row |-> rowNumber,
   text |-> "Missing or invalid name, skipping row", name |-> NULL]

\* this.log('WARN', `Row ${rowNumber}: Invalid or missing date of birth for
\* "${name}", skipping row`)
InvalidDateOfBirth(rowNumber, name) ==
  [level |-> "WARN", row |-> rowNumber,
   text |-> "Invalid or missing date of birth, skipping row", name |-> name]

\* this.log('INFO', `Parsing complete: ${validRows} valid associates,
\* ${skippedRows} rows skipped`)
ParsingComplete(validRows, skippedRows) ==
  [level |-> "INFO", text |-> "Parsing complete",
   valid |-> validRows, skipped |-> skippedRows]

\* What one pass of the loop body does
RowStep(associate, warning, valid, skipped) ==
  [associates |-> associate, warnings |-> warning, valid |-> valid,
   skipped |-> skipped]

\* `row[k]` (zero-based k) of an array: undefined beyond its length
cell(row, k) == IF k + 1 <= Len(row.items) THEN row.items[k + 1] ELSE NULL

\* a loop body that warns about a bad date and keeps the row all the same
processRow_warnAndKeep(row, rowNumber) ==
  IF row = NULL \/ Len(row.items) = 0
       \/ (Len(row.items) = 1 /\ falsy(cell(row, 0)))
  THEN RowStep(<<>>, <<>>, 0, 0)
  ELSE LET name == cell(row, 0)
           dobValue == cell(row, 1)
       IN IF falsy(name) \/ ~isString(name) \/ trim(name.text) = <<>>
          THEN RowStep(<<>>, <<MissingName(rowNumber)>>, 0, 1)
          ELSE IF parseDate(dobValue) = NULL
          THEN RowStep(<<Associate(trim(name.text), NULL, rowNumber)>>,
                       <<InvalidDateOfBirth(rowNumber, name)>>, 1, 1)
          ELSE RowStep(<<Associate(trim(name.text), parseDate(dobValue),
                                   rowNumber)>>, <<>>, 1, 0)

\* a loop body without the test for empty rows
processRow_warnEmpty(row, rowNumber) ==
  IF row = NULL THEN RowStep(<<>>, <<>>, 0, 0)
  ELSE LET name == cell(row, 0)
           dobValue == cell(row, 1)
       IN IF falsy(name) \/ ~isString(name) \/ trim(name.text) = <<>>
          THEN RowStep(<<>>, <<MissingName(rowNumber)>>, 0, 1)
          ELSE IF parseDate(dobValue) = NULL
          THEN RowStep(<<>>, <<InvalidDateOfBirth(rowNumber, name)>>, 0, 1)
          ELSE RowStep(<<Associate(trim(name.text), parseDate(dobValue),
                                   rowNumber)>>, <<>>, 1, 0)

\* parseFile, the body of the loop over the rows
processRow(row, rowNumber) ==
  IF row = NULL \/ Len(row.items) = 0
       \/ (Len(row.items) = 1 /\ falsy(cell(row, 0)))
  THEN RowStep(<<>>, <<>>, 0, 0)
  ELSE LET name == cell(row, 0)
           dobValue == cell(row, 1)
       IN IF falsy(name) \/ ~isString(name) \/ trim(name.text) = <<>>
          THEN RowStep(<<>>, <<MissingName(rowNumber)>>, 0, 1)
          ELSE IF parseDate(dobValue) = NULL
          THEN RowStep(<<>>, <<InvalidDateOfBirth(rowNumber, name)>>, 0, 1)
          ELSE RowStep(<<Associate(trim(name.text), parseDate(dobValue),
                                   rowNumber)>>, <<>>, 1, 0)

\* a row number that counts only the rows that were not blank
rowNumber_packed(i) == pValidRows + pSkippedRows + 1

\* `const rowNumber = i + 1`
rowNumber(i) == i + 1

\* Cells of the worksheets of the model ({ raw: false } gives every cell as
\* its formatted text)
Feb29Cell == Str(<<"0", "2", "/", "2", "9", "/", "2", "0", "0", "0">>)
DayFirstCell ==
  Str(<<" ", "2", "8", "/", "0", "2", "/", "1", "9", "9", "0", " ">>)
NoDateCell == Str(<<"n", "/", "a">>)

\* Rows of the worksheets of the model: the header, an entirely empty row,
\* a row with one empty cell, a row with a date but no name, a row with a
\* blank name, a row with a name only, a row with an unreadable date, and
\* two well-formed rows (one month-first, one day-first with white space
\* around name and date).
HeaderRow ==
  Array(<<Str(<<"Name">>), Str(<<"Date", " ", "of", " ", "Birth">>)>>)
EmptyRow == Array(<<>>)
EmptyCellRow == Array(<<Str(<<>>)>>)
NoNameRow == Array(<<NULL, Feb29Cell>>)
BlankNameRow == Array(<<Str(<<" ", " ">>), Feb29Cell>>)
NameOnlyRow == Array(<<Str(<<"Ann">>)>>)
BadDateRow == Array(<<Str(<<"Ann">>), NoDateCell>>)
AnnRow == Array(<<Str(<<"Ann">>), Feb29Cell>>)
MaryLouRow == Array(<<Str(<<" ", "Mary", " ", "Lou", " ">>), DayFirstCell>>)

RowSamples ==
  {HeaderRow, EmptyRow, EmptyCellRow, NoNameRow, BlankNameRow, NameOnlyRow,
   BadDateRow, AnnRow, MaryLouRow}

\* sheet_to_json(worksheet, { header: 1, raw: false })
Worksheets == UNION {[1..n -> RowSamples] : n \in 0..MaxRows}

ParseInit ==
  /\ PipelineIdle
  /\ MatcherOff
  /\ FormatOff
  /\ KeysOff
  /\ DateOff
  /\ utcOffset \in UtcOffsets
  /\ NotifyOff
  /\ SchedulerOff
  /\ LoggerOff
  /\ pPc = "rows"
  /\ pData \in Worksheets
  /\ pI = 0
  /\ pAssociates = <<>>
  /\ pValidRows = 0
  /\ pSkippedRows = 0
  /\ pLog = <<>>

\* One pass of `for (let i = 0; i < data.length; i++)`
ParseRow ==
  /\ pPc = "rows"
  /\ pI < Len(pData)
  /\ LET step == processRow(pData[pI + 1], rowNumber(pI)) IN
     /\ pAssociates' = pAssociates \o step.associates
     /\ pLog' = pLog \o step.warnings
     /\ pValidRows' = pValidRows + step.valid
     /\ pSkippedRows' = pSkippedRows + step.skipped
  /\ pI' = pI + 1
  /\ UNCHANGED <<pPc, pData, pipelineVars, matcherVars, formatVars, keyVars,
                 dateVars, hostVars, notifyVars,
                 schedulerVars, loggerVars>>

\* The loop is over: the summary is logged and `associates` is returned
ParseComplete ==
  /\ pPc = "rows"
  /\ pI = Len(pData)
  /\ pLog' = Append(pLog, ParsingComplete(pValidRows, pSkippedRows))
  /\ pPc' = "returned"
  /\ UNCHANGED <<pData, pI, pAssociates, pValidRows, pSkippedRows,
                 pipelineVars, matcherVars, formatVars, keyVars, dateVars,
                 hostVars, notifyVars,
                 schedulerVars, loggerVars>>

ParseNext == ParseRow \/ ParseComplete

SpecParse == ParseInit /\ [][ParseNext]_vars

\* ============================================= SMSService.formatMessage alone
\* The `associates` arguments: nothing, or an array of up to MaxListed
\* records.
FormatLists ==
  {NULL} \cup
  {Array(l) : l \in UNION {
     {[i \in 1..n |-> Associate(f[i][1], f[i][2], i + 1)] :
        f \in [1..n -> Names \X BirthDates]} : n \in 0..MaxListed}}

FormatInit ==
  /\ PipelineIdle
  /\ MatcherOff
  /\ ParseOff
  /\ KeysOff
  /\ DateOff
  /\ HostUTC
  /\ NotifyOff
  /\ SchedulerOff
  /\ LoggerOff
  /\ fPc = "ready"
  /\ fAssociates \in FormatLists
  /\ fMessage = <<>>

\* formatMessage(associates) is called and returns
CallFormatMessage ==
  /\ fPc = "ready"
  /\ fMessage' = formatMessage(fAssociates)
  /\ fPc' = "returned"
  /\ UNCHANGED <<fAssociates, pipelineVars, matcherVars, parseVars, keyVars,
                 dateVars, hostVars, notifyVars,
                 schedulerVars, loggerVars>>

FormatNext == CallFormatMessage

SpecFormat == FormatInit /\ [][FormatNext]_vars

\* ================================ performDailyCheck as a function of its run
\* this.log(level, message): the fixed text and the values put into it
Log(level, text, data) == [level |-> level, text |-> text, data |-> data]

\* Configuration.maskMobileNumber
maskMobileNumber(mobileNumber) ==
  IF Len(mobileNumber) < 4 THEN <<"*", "*", "*", "*">>
  ELSE SubSeq(mobileNumber, 1, 3) \o <<"*", "*", "*", "*">>
         \o SubSeq(mobileNumber, Len(mobileNumber) - 1, Len(mobileNumber))

\* a success line that also shows the bearer token
sentLine_bearer(c, ts) ==
  Log("INFO", "SMS notification sent successfully",
      [to |-> maskMobileNumber(c.recipientMobileNumber), at |-> ts,
       bearer |-> c.smsApiKey])

\* `SMS notification sent successfully to ${maskedNumber} at ${timestamp}`
sentLine(c, ts) ==
  Log("INFO", "SMS notification sent successfully",
      [to |-> maskMobileNumber(c.recipientMobileNumber), at |-> ts])

\* sendWithRetry over the outcomes the posts of one delivery meet, in order
RECURSIVE sendWithRetry(_, _, _)
sendWithRetry(posts, ts, n) ==
  LET sent == sendSMS(posts[n]) IN
  IF sent.ok THEN successResult(sent, ts, n)
  ELSE IF catchDecision(sent.error, n) = "fail"
  THEN failureResult(sent.error, ts, n)
  ELSE sendWithRetry(posts, ts, n + 1)

\* Step 5: the summary lines
summaryLines(total, found, sent, errs) ==
  <<Log("INFO", "=== Daily Birthday Check Complete ===", <<>>),
    Log("INFO", "Total associates checked", <<total>>),
    Log("INFO", "Birthdays found", <<found>>),
    Log("INFO", "Notification sent", <<IF sent THEN "Yes" ELSE "No">>)>>
  \o (IF Len(errs) > 0
      THEN <<Log("WARN", "Errors encountered", <<Len(errs)>>)>> ELSE <<>>)

\* Step 4: the lines logged after sendBirthdayNotification resolved
deliveryLines(c, sms) ==
  IF sms.success
  THEN <<sentLine(c, sms.timestamp)>>
       \o (IF sms.messageId # ""
           THEN <<Log("INFO", "Message ID", <<sms.messageId>>)>> ELSE <<>>)
       \o (IF sms.attempts > 1
           THEN <<Log("INFO", "Delivery succeeded after", <<sms.attempts>>)>>
           ELSE <<>>)
  ELSE <<Log("ERROR", "SMS notification failed", sms.error)>>
       \o (IF sms.attempts > 0
           THEN <<Log("ERROR", "Failed after", <<sms.attempts>>)>> ELSE <<>>)

\* Step 3: the lines logged after findBirthdaysToday returned
matchLines(found) ==
  IF Len(found) > 0
  THEN <<Log("INFO", "Found birthday(s) today", <<Len(found)>>)>>
       \o [i \in 1..Len(found) |-> Log("INFO", "  - ", found[i].name)]
  ELSE <<Log("INFO", "No birthdays found today", <<>>)>>

\* performDailyCheck on a service just constructed, under environment e,
\* when parseFile does sc.parse, new Date() gives sc.now and the posts of
\* the delivery meet sc.posts: the result returned and the messages
\* performDailyCheck and initialize pass to the logger, in order.  (The
\* lines ExcelParser logs while it reads are made from the workbook alone:
\* the parser is constructed with the logger and nothing else.)
performDailyCheck(e, sc) ==
  LET c == loadFromEnvironment(e)
      started ==
        <<Log("INFO", "=== Starting Daily Birthday Check ===", <<>>),
          Log("INFO", "Initializing Birthday Check Service...", <<>>)>>
  IN
  IF initializeError(e) # NULL
  THEN [result |-> CheckResult(0, <<>>, FALSE,
                     outerCatch(<<>>, initializeError(e)).errors),
        logs |-> started
          \o (IF validate(c) # <<>>
              THEN <<Log("ERROR", "Configuration validation failed",
                         validate(c))>>
              ELSE <<>>)
          \o <<Log("ERROR", "Initialization failed", initializeError(e)),
               Log("ERROR", "Unexpected error during birthday check",
                   initializeError(e))>>]
  ELSE
  LET ready ==
        started
        \o <<Log("INFO", "Configuration loaded and validated successfully", <<>>),
             Log("INFO", "All components initialized successfully", <<>>),
             Log("INFO", "Loading associate data from", <<c.excelFilePath>>)>>
  IN
  IF sc.parse.threw
  THEN [result |-> ingestFailedResult(
                     <<Wrapped("Failed to parse Excel file", sc.parse.error)>>),
        logs |-> ready \o <<Log("ERROR", "Failed to parse Excel file",
                                sc.parse.error)>>]
  ELSE
  LET list == sc.parse.associates
      found == findBirthdaysToday(Array(list), sc.now)
      matched ==
        ready
        \o <<Log("INFO", "Successfully loaded", <<Len(list)>>),
             Log("INFO", "Checking for birthdays today...", <<>>)>>
        \o matchLines(found)
  IN
  IF ~shouldNotify(found)
  THEN [result |-> CheckResult(Len(list), found, FALSE, <<>>),
        logs |-> matched \o summaryLines(Len(list), Len(found), FALSE, <<>>)]
  ELSE
  LET sms == sendWithRetry(sc.posts, 0, 1)
      after == IF sms.success THEN deliverySucceeded(FALSE, <<>>)
               ELSE deliveryFailed(FALSE, <<>>, "SMS notification failed",
                                   sms.error)
  IN [result |-> CheckResult(Len(list), found, after.notificationSent,
                             after.errors),
      logs |-> matched
        \o <<Log("INFO", "Sending birthday notification SMS...", <<>>)>>
        \o deliveryLines(c, sms)
        \o summaryLines(Len(list), Len(found), after.notificationSent,
                        after.errors)]

\* ================================ two runs that differ in the API key only
\* Pairs of different keys, both accepted by the validation
KeyPairs ==
  {<<"test-api-key", "invalid-key">>, <<"test-api-key", "test-api-key-12345">>}

\* What the posts of a delivery meet: success, a rejected key, no answer
PostOutcomes == {o \in AxiosOutcomes : o.status \in {200, 401, 0}}

\* Environments with a key to replace
KeyedEnvs == {e \in EnvSamples : e.SMS_API_KEY # ""}

KeysInit ==
  /\ PipelineIdle
  /\ MatcherOff
  /\ FormatOff
  /\ ParseOff
  /\ DateOff
  /\ HostUTC
  /\ NotifyOff
  /\ SchedulerOff
  /\ LoggerOff
  /\ kEnv \in KeyedEnvs
  /\ kKeys \in KeyPairs
  /\ kScenario \in [parse : parseFile(kEnv.EXCEL_FILE_PATH),
                     now : Todays,
                     posts : [1..maxAttempts -> PostOutcomes]]
  /\ kOut = [first |-> NULL, second |-> NULL]

\* The run under the first key
RunFirst ==
  /\ kOut.first = NULL
  /\ kOut' = [kOut EXCEPT !.first =
       performDailyCheck([kEnv EXCEPT !.SMS_API_KEY = kKeys[1]], kScenario)]
  /\ UNCHANGED <<kEnv, kKeys, kScenario, pipelineVars, matcherVars,
                 formatVars, parseVars, dateVars, hostVars, notifyVars,
                 schedulerVars, loggerVars>>

\* The run under the second key
RunSecond ==
  /\ kOut.second = NULL
  /\ kOut' = [kOut EXCEPT !.second =
       performDailyCheck([kEnv EXCEPT !.SMS_API_KEY = kKeys[2]], kScenario)]
  /\ UNCHANGED <<kEnv, kKeys, kScenario, pipelineVars, matcherVars,
                 formatVars, parseVars, dateVars, hostVars, notifyVars,
                 schedulerVars, loggerVars>>

KeysNext == RunFirst \/ RunSecond

SpecKeys == KeysInit /\ [][KeysNext]_vars

\* ================================================================== claims
\* Helpers of the statements below.
MatcherReturned == matcherCalls = 1 /\ today # NULL
LastAttempt == attemptLog[Len(attemptLog)]
AllFailed(log) == \A i \in 1..Len(log) : log[i].error # NULL
IngestFailed == parseLog # <<>> /\ parseLog[1].threw
SameDay(a, d) == a.dateOfBirth.month = d.month /\ a.dateOfBirth.day = d.day
\* String.prototype.split('\n'): the lines of a text
RECURSIVE SplitLines(_)
SplitLines(text) ==
  IF \A i \in 1..Len(text) : text[i] # "\n" THEN <<text>>
  ELSE LET k == CHOOSE i \in 1..Len(text) :
                  text[i] = "\n" /\ \A j \in 1..(i - 1) : text[j] # "\n"
       IN <<SubSeq(text, 1, k - 1)>> \o SplitLines(SubSeq(text, k + 1, Len(text)))

\* C1: in a run whose matching returns an empty match set, neither
\* sendBirthdayNotification nor sendSMS is invoked, notificationSent stays
\* false (also in the returned result) and the matching and delivery steps
\* add nothing to errors.
C1_NoMatchesNoDelivery ==
  (MatcherReturned /\ birthdaysFound = <<>>) =>
     /\ notifyCalls = 0
     /\ attemptLog = <<>>
     /\ sleeps = <<>>
     /\ notificationSent = FALSE
     /\ errors = <<>>
     /\ pc = "done"
     /\ result.notificationSent = FALSE
     /\ result.errors = <<>>

\* C1 case: a run over a non-empty record list none of which has its
\* birthday today has returned.
C1_Witness ==
  /\ pc = "done"
  /\ MatcherReturned
  /\ Len(associates) > 0
  /\ birthdaysFound = <<>>
  /\ result.totalAssociatesChecked = Len(associates)

\* C2: in one run sendBirthdayNotification is invoked at most once whatever
\* the size of the match set, and every request sent carries one message:
\* the header followed by one line for each matched record, in order.
C2_SingleConsolidatedNotification ==
  /\ notifyCalls <= 1
  /\ \A k \in 1..Len(attemptLog) :
       LET text == SplitLines(attemptLog[k].request.message) IN
       /\ Len(text) = Len(birthdaysFound) + 1
       /\ text[1] = HeaderLine
       /\ \A i \in 1..Len(birthdaysFound) :
            text[i + 1] = <<"-", " ">> \o birthdaysFound[i].name

\* C2 case: two records matched and the notification went out.
C2_Witness ==
  /\ pc = "done"
  /\ Len(birthdaysFound) = 2
  /\ birthdaysFound[1].name # birthdaysFound[2].name
  /\ notifyCalls = 1
  /\ Len(attemptLog) >= 1
  /\ result.notificationSent

\* C3: sendWithRetry makes at most 3 sends, makes none after a successful
\* one, and reports attempts = number of sends made: success at send k gives
\* success = true with attempts = k, three failures give success = false
\* with attempts = 3.
C3_RetryCapAndAttemptCount ==
  /\ Len(attemptLog) <= 3
  /\ \A i \in 1..Len(attemptLog) :
       /\ attemptLog[i].attempt = i
       /\ (attemptLog[i].error = NULL => i = Len(attemptLog))
  /\ (attemptLog # <<>> /\ LastAttempt.error = NULL) =>
        /\ pc \in {"result", "done"}
        /\ smsResult.success = TRUE
        /\ smsResult.attempts = Len(attemptLog)
  /\ (attemptLog # <<>> /\ pc \in {"result", "done"} /\ LastAttempt.error # NULL) =>
        /\ smsResult.success = FALSE
        /\ smsResult.attempts = 3
        /\ Len(attemptLog) = 3

\* C3 case: the send failed twice, then succeeded.
C3_Witness ==
  /\ pc = "done"
  /\ Len(attemptLog) = 3
  /\ attemptLog[1].error # NULL
  /\ attemptLog[2].error # NULL
  /\ attemptLog[3].error = NULL
  /\ smsResult.success
  /\ smsResult.attempts = 3

\* C4: a sleep happens only between failed attempt n and attempt n + 1 and
\* lasts 2^n seconds (2000 ms, then 4000 ms); none follows a success or the
\* third failure, so three failures sleep exactly twice: 2 s, then 4 s.
C4_BackoffSchedule ==
  /\ Len(sleeps) <= 2
  /\ \A n \in 1..Len(sleeps) :
       /\ sleeps[n].ms = (IF n = 1 THEN 2000 ELSE 4000)
       /\ sleeps[n].after = n
       /\ n <= Len(attemptLog)
       /\ attemptLog[n].error # NULL
       /\ sleeps[n].at > attemptLog[n].at
       /\ (n < Len(attemptLog) => attemptLog[n + 1].at > sleeps[n].at)
  /\ (pc = "attempt" => Len(sleeps) = Len(attemptLog))
  /\ (pc \in {"sleep", "result", "done"} /\ attemptLog # <<>>) =>
        Len(sleeps) = Len(attemptLog) - 1

\* C4 case: three failures, two sleeps.
C4_Witness ==
  /\ pc = "done"
  /\ Len(attemptLog) = 3
  /\ AllFailed(attemptLog)
  /\ Len(sleeps) = 2
  /\ sleeps[1].ms = 2000
  /\ sleeps[2].ms = 4000

C6_AuthFailureNotRetried ==
  \A i \in 1..Len(attemptLog) :
     (attemptLog[i].error # NULL
        /\ attemptLog[i].error.prefix = "Authentication failed")
     => i = Len(attemptLog)

\* C7: when all 3 attempts fail, the outcome has success = false and its
\* error is the third attempt's error, whatever the earlier errors were.
C7_LastErrorReported ==
  (pc \in {"result", "done"} /\ Len(attemptLog) = 3 /\ AllFailed(attemptLog)) =>
     /\ smsResult.success = FALSE
     /\ smsResult.error = attemptLog[3].error

\* C7 case: three failures with three different error texts.
C7_Witness ==
  /\ pc = "done"
  /\ Len(attemptLog) = 3
  /\ AllFailed(attemptLog)
  /\ attemptLog[1].error # attemptLog[3].error
  /\ attemptLog[2].error # attemptLog[3].error
  /\ attemptLog[1].error # attemptLog[2].error
  /\ smsResult.success = FALSE

\* C8: the timestamp of the outcome of sendBirthdayNotification is the clock
\* value at the last send attempt, also when retries occurred.
C8_TimestampOfFinalAttempt ==
  (pc \in {"result", "done"} /\ smsResult # NULL /\ attemptLog # <<>>) =>
     smsResult.timestamp = LastAttempt.at

\* C8 (amended): the timestamp of the outcome is the instant at which
\* sendBirthdayNotification was called, which is the clock value at the first
\* send attempt; retries and backoff sleeps do not move it.
C8_TimestampOfInitialAttempt ==
  (pc \in {"result", "done"} /\ smsResult # NULL /\ attemptLog # <<>>) =>
     /\ smsResult.timestamp = attemptLog[1].at
     /\ smsResult.timestamp = timestamp

\* C8 case: a delivery that succeeded at its third attempt; its timestamp
\* lies before the final attempt.
C8_Witness ==
  /\ pc = "done"
  /\ Len(attemptLog) = 3
  /\ smsResult.success
  /\ smsResult.timestamp = attemptLog[1].at
  /\ smsResult.timestamp < attemptLog[3].at

\* C9: when parseFile fails the run ends with totalAssociatesChecked = 0, no
\* birthdaysFound, notificationSent = false and exactly one error entry (the
\* ingestion failure), and neither the matcher nor the delivery client runs;
\* no record list is kept.
C9_IngestFailureShortCircuits ==
  IngestFailed =>
     /\ pc = "done"
     /\ result.totalAssociatesChecked = 0
     /\ result.birthdaysFound = <<>>
     /\ result.notificationSent = FALSE
     /\ Len(result.errors) = 1
     /\ result.errors[1] = Wrapped("Failed to parse Excel file", parseLog[1].error)
     /\ associates = <<>>
     /\ matcherCalls = 0
     /\ notifyCalls = 0
     /\ attemptLog = <<>>
     /\ Len(parseLog) = 1

\* C9 case: the workbook had no worksheet and the run has returned.
C9_Witness ==
  /\ pc = "done"
  /\ IngestFailed
  /\ parseLog[1].error.prefix = "Excel file contains no worksheets"
  /\ Len(result.errors) = 1

\* C10: when ingestion and matching succeeded with a non-empty match set and
\* the delivery failed (its outcome has success = false, or the call threw),
\* the result has notificationSent = false, the delivery error as the entry
\* appended to errors, totalAssociatesChecked = number of ingested records
\* and birthdaysFound = the ingested records whose birthday is today.
C10_DeliveryFailureStillReturns ==
  (pc = "done" /\ notifyCalls = 1 /\ (smsResult = NULL \/ ~smsResult.success)) =>
     /\ result.notificationSent = FALSE
     /\ Len(result.errors) = 1
     /\ (smsResult # NULL =>
           result.errors[1] = Wrapped("SMS notification failed", LastAttempt.error))
     /\ (smsResult = NULL =>
           result.errors[1].prefix = "Failed to send SMS notification")
     /\ result.totalAssociatesChecked = Len(parseLog[1].associates)
     /\ result.birthdaysFound # <<>>
     /\ LET Today(a) == SameDay(a, today)
        IN result.birthdaysFound = SelectSeq(parseLog[1].associates, Today)

\* C10 case: two records ingested, one of them matched, all three sends
\* failed and the run has returned.
C10_Witness ==
  /\ pc = "done"
  /\ notifyCalls = 1
  /\ smsResult # NULL
  /\ ~smsResult.success
  /\ Len(parseLog[1].associates) = 2
  /\ Len(result.birthdaysFound) = 1
  /\ result.totalAssociatesChecked = 2

\* Helpers of C11: the failures a run can meet, read off the run's history.
InitializeFailed == initCalls # <<>> /\ initCalls[1] # NULL
ParserMissing == pc = "done" /\ initCalls = <<>> /\ parseLog = <<>>
MatcherThrew == matcherCalls = 1 /\ today = NULL
MatcherMissing ==
  pc = "done" /\ parseLog # <<>> /\ ~parseLog[1].threw /\ matcherCalls = 0
DeliveryFailed == smsResult # NULL /\ ~smsResult.success
DeliveryThrew == pc = "done" /\ notifyCalls = 1 /\ smsResult = NULL
DeliveryMissing ==
  pc = "done" /\ MatcherReturned /\ birthdaysFound # <<>> /\ notifyCalls = 0
HasEntry(errs, step) == \E i \in 1..Len(errs) : errs[i].prefix = step
HasCause(errs, step, error) == \E i \in 1..Len(errs) : errs[i] = Wrapped(step, error)

\* C11: performDailyCheck never raises past its own call: whatever fails
\* (initialization, ingestion, matching, delivery), the call ends by
\* returning a result whose four fields are populated, and every failure
\* that occurred in the run has its entry in the result's errors; a run
\* without failure returns no error entry.
C11_NeverRaisesFailuresRecorded ==
  /\ pc # "raised"
  /\ pc = "done" =>
       /\ DOMAIN result = {"totalAssociatesChecked", "birthdaysFound",
                           "notificationSent", "errors"}
       /\ result.totalAssociatesChecked = Len(associates)
       /\ result.notificationSent \in BOOLEAN
       /\ Len(result.birthdaysFound) <= result.totalAssociatesChecked
       /\ InitializeFailed =>
            HasCause(result.errors, "Unexpected error during birthday check",
                     initCalls[1])
       /\ IngestFailed =>
            HasCause(result.errors, "Failed to parse Excel file",
                     parseLog[1].error)
       /\ ParserMissing => HasEntry(result.errors, "Failed to parse Excel file")
       /\ (MatcherThrew \/ MatcherMissing) =>
            HasEntry(result.errors, "Failed to match birthdays")
       /\ DeliveryFailed =>
            HasCause(result.errors, "SMS notification failed", smsResult.error)
       /\ (DeliveryThrew \/ DeliveryMissing) =>
            HasEntry(result.errors, "Failed to send SMS notification")
       /\ (result.errors = <<>>) <=>
            ~(InitializeFailed \/ IngestFailed \/ ParserMissing \/ MatcherThrew
                \/ MatcherMissing \/ DeliveryFailed \/ DeliveryThrew
                \/ DeliveryMissing)

\* C11 case: the run had to initialize the service itself, initialization
\* failed on an invalid configuration, and the call has returned.
C11_Witness ==
  /\ pc = "done"
  /\ InitializeFailed
  /\ initCalls[1].prefix = "Configuration validation failed"
  /\ result.errors =
       <<Wrapped("Unexpected error during birthday check", initCalls[1])>>
  /\ result.totalAssociatesChecked = 0

\* Helpers of C13..C15.
Readable(a) ==
  /\ a # NULL
  /\ a.dateOfBirth # NULL
  /\ "year" \in DOMAIN a.dateOfBirth
IsDate(d) == d # NULL /\ "year" \in DOMAIN d
IsList(l) == l # NULL /\ "items" \in DOMAIN l
BornOn(a, d) == Readable(a) /\ SameDay(a, d)
\* out lists the elements of items at the positions idx, in ascending order
SelectsInOrder(out, items, idx) ==
  /\ Len(out) = Cardinality(idx)
  /\ \E f \in [1..Len(out) -> idx] :
       /\ \A j, k \in 1..Len(out) : j < k => f[j] < f[k]
       /\ \A k \in 1..Len(out) : out[k] = items[f[k]]
Returns(a) == \E k \in 1..Len(mResult) : mResult[k] = a

\* C13: for a list of records with a date of birth and a target date,
\* findBirthdaysOnDate returns exactly the records whose birth month and day
\* equal the target's month and day, in input order; the birth years and the
\* target's year play no part (another target on the same day of another
\* year gives the same list).
C13_MatchesMonthAndDay ==
  (/\ mPc = "returned"
   /\ IsList(mAssociates)
   /\ IsDate(mDate)
   /\ \A i \in 1..Len(mAssociates.items) : Readable(mAssociates.items[i]))
  =>
   /\ SelectsInOrder(mResult, mAssociates.items,
         {i \in 1..Len(mAssociates.items) :
             /\ mAssociates.items[i].dateOfBirth.month = mDate.month
             /\ mAssociates.items[i].dateOfBirth.day = mDate.day})
   /\ \A d \in {t \in MatchDates : IsDate(t)} :
        (d.month = mDate.month /\ d.day = mDate.day) =>
           findBirthdaysOnDate(mAssociates, d) = mResult

\* C13 case: two records born on Feb 29 of different years, neither the
\* target's year; both are returned, in row order.
C13_Witness ==
  /\ mPc = "returned"
  /\ IsList(mAssociates)
  /\ Len(mAssociates.items) = 2
  /\ mDate = [year |-> 2024, month |-> 2, day |-> 29]
  /\ Readable(mAssociates.items[1])
  /\ Readable(mAssociates.items[2])
  /\ mAssociates.items[1].dateOfBirth = [year |-> 2000, month |-> 2, day |-> 29]
  /\ mAssociates.items[2].dateOfBirth = [year |-> 1996, month |-> 2, day |-> 29]
  /\ mResult = mAssociates.items

\* C14: a record born on Feb 29 is returned when the target is Feb 29 and
\* for no other target, in particular not for Feb 28 or Mar 1 of any year;
\* a record born on Feb 28 is not returned for a Feb 29 target.
C14_LeapDayOnlyOnLeapDay ==
  (mPc = "returned" /\ IsList(mAssociates) /\ IsDate(mDate)) =>
    \A i \in 1..Len(mAssociates.items) :
      LET a == mAssociates.items[i] IN
      Readable(a) =>
        /\ (a.dateOfBirth.month = 2 /\ a.dateOfBirth.day = 29) =>
              (Returns(a) <=> (mDate.month = 2 /\ mDate.day = 29))
        /\ (a.dateOfBirth.month = 2 /\ a.dateOfBirth.day = 28
               /\ mDate.month = 2 /\ mDate.day = 29) => ~Returns(a)

\* C14 case: on Feb 28 of a common year a list with a Feb 29 record and a
\* Feb 28 record gives the Feb 28 record only.
C14_Witness ==
  /\ mPc = "returned"
  /\ IsList(mAssociates)
  /\ Len(mAssociates.items) = 2
  /\ mDate = [year |-> 2023, month |-> 2, day |-> 28]
  /\ Readable(mAssociates.items[1])
  /\ Readable(mAssociates.items[2])
  /\ mAssociates.items[1].dateOfBirth = [year |-> 2000, month |-> 2, day |-> 29]
  /\ mAssociates.items[2].dateOfBirth = [year |-> 1990, month |-> 2, day |-> 28]
  /\ mResult = <<mAssociates.items[2]>>

\* C15: findBirthdaysOnDate returns the empty list when the target is
\* missing or no valid date, or when the list is missing, no array or
\* empty; elements that are missing or carry no valid date of birth are
\* left out, and the readable records around them are still matched.
C15_UnusableInputsGiveNoMatch ==
  mPc = "returned" =>
    /\ (~IsList(mAssociates) \/ ~IsDate(mDate)) => mResult = <<>>
    /\ (IsList(mAssociates) /\ IsDate(mDate)) =>
         SelectsInOrder(mResult, mAssociates.items,
           {i \in 1..Len(mAssociates.items) :
               BornOn(mAssociates.items[i], mDate)})

\* C15 case: a record without date of birth stands before a record born
\* today; only the second is returned.
C15_Witness ==
  /\ mPc = "returned"
  /\ IsList(mAssociates)
  /\ IsDate(mDate)
  /\ Len(mAssociates.items) = 2
  /\ mAssociates.items[1] # NULL
  /\ mAssociates.items[1].dateOfBirth = NULL
  /\ BornOn(mAssociates.items[2], mDate)
  /\ mResult = <<mAssociates.items[2]>>

HasTextName(row) ==
  /\ Len(row.items) >= 1
  /\ row.items[1] # NULL
  /\ "text" \in DOMAIN row.items[1]
  /\ \E k \in 1..Len(row.items[1].text) : row.items[1].text[k] \notin WhiteSpace
HasDate(row) == Len(row.items) >= 2 /\ parseDate(row.items[2]) # NULL
WellFormedRow(row) == HasTextName(row) /\ HasDate(row)
FirstCellEmpty(row) ==
  Len(row.items) = 0 \/ row.items[1] = NULL \/ row.items[1] = Str(<<>>)
BlankRow(row) ==
  Len(row.items) = 0 \/ (Len(row.items) = 1 /\ FirstCellEmpty(row))
RecordsOfRow(i) ==
  Cardinality({k \in 1..Len(pAssociates) : pAssociates[k].rowNumber = i})
WarningsOfRow(i) ==
  Cardinality({k \in 1..Len(pLog) : pLog[k].level = "WARN" /\ pLog[k].row = i})
Warnings == Cardinality({k \in 1..Len(pLog) : pLog[k].level = "WARN"})

\* C18: parseFile returns one record for each row with a non-blank text
\* name and a parseable date, carrying the trimmed name, the parsed date and
\* the row's 1-based position in the table (the header is row 1), in row
\* order; the rows in between that give no record do not shift the row
\* numbers of the later records.
C18_RecordPerWellFormedRow ==
  pPc = "returned" =>
    LET good == {i \in 1..Len(pData) : WellFormedRow(pData[i])} IN
    /\ Len(pAssociates) = Cardinality(good)
    /\ \E f \in [1..Len(pAssociates) -> good] :
         /\ \A j, k \in 1..Len(pAssociates) : j < k => f[j] < f[k]
         /\ \A k \in 1..Len(pAssociates) :
              pAssociates[k] =
                Associate(trim(pData[f[k]].items[1].text),
                          parseDate(pData[f[k]].items[2]), f[k])

\* C18 case: a header, a row with an unreadable date and a well-formed row
\* with white space around its cells: one record, trimmed, numbered 3.
C18_Witness ==
  /\ pPc = "returned"
  /\ pData = <<HeaderRow, BadDateRow, MaryLouRow>>
  /\ pAssociates =
       <<Associate(<<"Mary", " ", "Lou">>,
                   [year |-> 1990, month |-> 2, day |-> 28], 3)>>

\* C19: at every point of the loop each row handled so far is in exactly
\* one of three classes: one record and no diagnostic, no record and exactly
\* one diagnostic, or neither; the records are the rows counted as valid and
\* come only from well-formed rows, the diagnostics are the rows counted as
\* skipped, and the loop goes through every row and returns whatever the
\* rows hold.
C19_RowClasses ==
  /\ pPc \in {"rows", "returned"}
  /\ \A i \in 1..pI :
       \/ RecordsOfRow(i) = 1 /\ WarningsOfRow(i) = 0
       \/ RecordsOfRow(i) = 0 /\ WarningsOfRow(i) = 1
       \/ RecordsOfRow(i) = 0 /\ WarningsOfRow(i) = 0
  /\ \A k \in 1..Len(pAssociates) :
       /\ pAssociates[k].rowNumber \in 1..pI
       /\ WellFormedRow(pData[pAssociates[k].rowNumber])
  /\ Len(pAssociates) = pValidRows
  /\ Warnings = pSkippedRows
  /\ pPc = "returned" =>
       /\ pI = Len(pData)
       /\ pLog[Len(pLog)] = ParsingComplete(Len(pAssociates), Warnings)

\* C19 case: a table with a row of each class has been read: a blank row, a
\* row with an unreadable date and a well-formed row.
C19_Witness ==
  /\ pPc = "returned"
  /\ pData = <<EmptyRow, BadDateRow, AnnRow>>
  /\ RecordsOfRow(1) = 0 /\ WarningsOfRow(1) = 0
  /\ RecordsOfRow(2) = 0 /\ WarningsOfRow(2) = 1
  /\ RecordsOfRow(3) = 1 /\ WarningsOfRow(3) = 0
  /\ pValidRows = 1
  /\ pSkippedRows = 1

\* C20: a row whose first cell is empty, or that is entirely empty, is
\* skipped silently: no diagnostic names it and it is not counted among the
\* skipped rows, also when its second cell holds a value.
C20_EmptyFirstCellSilent ==
  /\ \A i \in 1..pI :
       FirstCellEmpty(pData[i]) => RecordsOfRow(i) = 0 /\ WarningsOfRow(i) = 0
  /\ pSkippedRows =
       Cardinality({i \in 1..pI :
                      ~FirstCellEmpty(pData[i]) /\ RecordsOfRow(i) = 0})

\* C20 (amended): a row that is entirely empty, or whose only cell is an
\* empty first cell, is skipped silently: no diagnostic names it and it is
\* not counted among the skipped rows.  A row whose first cell is empty and
\* whose second cell holds a value is skipped with the missing-name
\* diagnostic and is counted among the skipped rows.
C20_BlankRowSilent ==
  /\ \A i \in 1..pI :
       /\ BlankRow(pData[i]) => RecordsOfRow(i) = 0 /\ WarningsOfRow(i) = 0
       /\ (FirstCellEmpty(pData[i]) /\ ~BlankRow(pData[i])) =>
            /\ RecordsOfRow(i) = 0
            /\ WarningsOfRow(i) = 1
            /\ \E k \in 1..Len(pLog) : pLog[k] = MissingName(i)
  /\ pSkippedRows =
       Cardinality({i \in 1..pI : ~BlankRow(pData[i]) /\ RecordsOfRow(i) = 0})

\* C20 case: a table with an entirely empty row and a row that has a date
\* but no name: the first leaves no trace, the second a diagnostic and a
\* count.
C20_Witness ==
  /\ pPc = "returned"
  /\ pData = <<EmptyRow, NoNameRow>>
  /\ pLog = <<MissingName(2), ParsingComplete(0, 1)>>
  /\ pSkippedRows = 1

\* C12: the API key does not reach what a run hands out: two runs on fresh
\* services that differ only in the (accepted) API key, over the same
\* workbook, on the same day and with the same provider responses, return
\* equal results, every errors entry included, and pass equal sequences of
\* messages to the logger.
C12_KeyDoesNotShow ==
  (kOut.first # NULL /\ kOut.second # NULL) =>
     /\ kOut.first.result = kOut.second.result
     /\ kOut.first.logs = kOut.second.logs

\* C12 case: both runs were made under different keys; the provider
\* rejected the key at the first post and accepted the second post, so the
\* runs logged the success line and the attempt count.
C12_Witness ==
  /\ kOut.first # NULL
  /\ kOut.second # NULL
  /\ kKeys[1] # kKeys[2]
  /\ kScenario.posts[1].status = 401
  /\ kScenario.posts[2].status = 200
  /\ kOut.first.result.notificationSent
  /\ kOut.second.result.notificationSent
  /\ \E i \in 1..Len(kOut.first.logs) :
       kOut.first.logs[i] = Log("INFO", "Delivery succeeded after", <<2>>)

\* ---------------------------------------------------------------- C21..C26, C30
Called(v) == dPc = "returned" /\ dValue = v
Finite(v) == isNumber(v) /\ v \notin {NaN, Infinity}
Trunc(v) == IF v.number < 0 /\ v.quarter > 0 THEN v.number + 1 ELSE v.number
Floor(v) == v.number
DaysAfterEpoch(k) == DateFromDay(DayFromDate(1899, 12, 30) + k)
Date(y, m, d) == [year |-> y, month |-> m, day |-> d]
YearLast(v) == isString(v) /\ v.text \in YearLastTexts
YearFirst(v) == isString(v) /\ v.text \in YearFirstTexts
Groups(v) ==
  IF matchSlash(v.text) # <<>> THEN matchSlash(v.text)
  ELSE IF matchYearLast(v.text) # <<>> THEN matchYearLast(v.text)
  ELSE matchYearFirst(v.text)
First(v) == parseInt(Groups(v)[1])
Second(v) == parseInt(Groups(v)[2])
Third(v) == parseInt(Groups(v)[3])
Text_01_15_1990 == Str(<<"0", "1", "/", "1", "5", "/", "1", "9", "9", "0">>)
Text_1985_03_22 == Str(<<"1", "9", "8", "5", "-", "0", "3", "-", "2", "2">>)
Text_12_05_1988 == Str(<<"1", "2", "-", "0", "5", "-", "1", "9", "8", "8">>)
Text_01_02_2000 == Str(<<"0", "1", "/", "0", "2", "/", "2", "0", "0", "0">>)
Text_31_02_2000 == Str(<<"3", "1", "/", "0", "2", "/", "2", "0", "0", "0">>)
Text_02_30_2000 == Str(<<"0", "2", "/", "3", "0", "/", "2", "0", "0", "0">>)
Text_13_13_2000 == Str(<<"1", "3", "/", "1", "3", "/", "2", "0", "0", "0">>)
Text_1985_13_45 == Str(<<"1", "9", "8", "5", "-", "1", "3", "-", "4", "5">>)

C23_ThreeLayoutsOnEveryHost ==
  /\ Called(Text_01_15_1990) => dResult = Date(1990, 1, 15)
  /\ Called(Text_1985_03_22) => dResult = Date(1985, 3, 22)
  /\ Called(Text_12_05_1988) => dResult = Date(1988, 12, 5)

Exists(y, m, d) == m \in 1..12 /\ d \in 1..daysInMonth(y, m)

\* A text a/b/yyyy or a-b-yyyy that is a date in neither order, or a text
\* yyyy-m-d that is none
NamesNoDate(v) ==
  \/ /\ YearLast(v)
     /\ ~Exists(Third(v), First(v), Second(v))
     /\ ~Exists(Third(v), Second(v), First(v))
  \/ /\ YearFirst(v)
     /\ ~Exists(First(v), Second(v), Third(v))

\* C25: parseDate of a text that names no date of the calendar (such as
\* 31/02/2000, 02/30/2000, 13/13/2000, 1985-13-45) is NULL, never another
\* date.
C25_NonExistentDateIsNull ==
  /\ \A v \in {Text_31_02_2000, Text_02_30_2000, Text_13_13_2000,
                Text_1985_13_45} : NamesNoDate(v)
  /\ (dPc = "returned" /\ NamesNoDate(dValue)) => dResult = NULL

\* C26: a text yyyy-m-d that new Date does not accept is read by
\* parseMatchedDate as year yyyy, month m, day d.
C26_YearFirstReadAsYearMonthDay ==
  (dPc = "returned" /\ YearFirst(dValue)
     /\ isNaNTime(nativeDateParse(dValue.text, utcOffset)))
    => dResult = newDate(First(dValue), Second(dValue) - 1, Third(dValue))

\* C30 as stated: for a text a/b/yyyy or a-b-yyyy with a <= 12 and b > 12
\* the second number is the month and the first the day.
C30_SecondAbove12IsMonth ==
  (dPc = "returned" /\ YearLast(dValue)
     /\ First(dValue) <= 12 /\ Second(dValue) > 12)
    => dResult = MakeDay(Third(dValue), Second(dValue), First(dValue))

\* C30 amended: for a text a/b/yyyy or a-b-yyyy with a <= 12 and b > 12 the
\* first number is the month and the second the day (carried over when the
\* month has no such day).
C30_SecondAbove12IsDay ==
  (dPc = "returned" /\ YearLast(dValue)
     /\ First(dValue) <= 12 /\ Second(dValue) > 12)
    => dResult = MakeDay(Third(dValue), First(dValue), Second(dValue))

C30_Witness ==
  /\ Called(Text_01_15_1990)
  /\ First(dValue) <= 12
  /\ Second(dValue) > 12
  /\ dResult = Date(1990, 1, 15)

\* ------------------------------------------------------------------------ C27
\* "+" followed by 10 to 15 digits and nothing else
PlusAndDigits(number) ==
  /\ Len(number) \in 11..16
  /\ number[1] = "+"
  /\ \A i \in 2..Len(number) : number[i] \in Digits

\* The characters of number that are neither a space nor a dash
RECURSIVE WithoutSeparators(_)
WithoutSeparators(number) ==
  IF number = <<>> THEN <<>>
  ELSE (IF Head(number) \in {" ", "-"} THEN <<>> ELSE <<Head(number)>>)
         \o WithoutSeparators(Tail(number))

C28_InvalidConfigurationNeverSends ==
  /\ validate(loadFromEnvironment(env)) # <<>>
       => initializeError(env).prefix = "Configuration validation failed"
  /\ (config # NULL /\ validate(config) # <<>>) => attemptLog = <<>>

\* ------------------------------------------------------------------------ C29
\* C29: sendBirthdayNotification called with an empty or null list returns
\* success = false with the error 'No associates provided for notification',
\* and neither a send attempt nor a backoff sleep is made.
C29_NoAssociatesNoAttempt ==
  (notifyCalls = 1 /\ (nAssociates = NULL \/ nAssociates = Array(<<>>)))
    => /\ pc = "result"
       /\ smsResult # NULL
       /\ smsResult.success = FALSE
       /\ smsResult.error = Err("No associates provided for notification", 0, <<>>)
       /\ attemptLog = <<>>
       /\ sleeps = <<>>

C29_Witness ==
  /\ notifyCalls = 1
  /\ nAssociates = Array(<<>>)
  /\ pc = "result"

\* ------------------------------------------------------------------------ C31
\* C31: in every result performDailyCheck returns, notificationSent = true
\* implies that birthdaysFound is not empty, that the delivery of that run
\* resolved with success = true, and that errors is empty.
C31_SentMeansDeliveredWithoutError ==
  (pc = "done" /\ result.notificationSent)
    => /\ Len(result.birthdaysFound) > 0
       /\ notifyCalls = 1
       /\ smsResult # NULL
       /\ smsResult.success
       /\ attemptLog # <<>>
       /\ attemptLog[Len(attemptLog)].error = NULL
       /\ result.errors = <<>>

\* C31 case: a run whose delivery succeeded at the second attempt has
\* returned.
C31_Witness ==
  /\ pc = "done"
  /\ result.notificationSent
  /\ Len(attemptLog) = 2

\* ------------------------------------------------------------------------ C33
\* C33: a run ingests on an initialized service only: when step 1 is over
\* and the run goes on to read the workbook, the parser, the matcher and the
\* SMS service exist, whatever happened to the service before the run, a
\* failed initialize() included.
C33_InitializedBeforeIngest ==
  pc = "ingest"
    => /\ config # NULL
       /\ excelParser # "null"
       /\ dateMatcher # "null"
       /\ smsService # NULL

\* ------------------------------------------------------------------------ C37
\* C37: every call of sendBirthdayNotification that enters the retry loop
\* resolves, after at most 3 send attempts and 2 sleeps, and every run of
\* performDailyCheck reaches its return.
C37_RunTerminates ==
  /\ [](Len(attemptLog) <= 3 /\ Len(sleeps) <= 2)
  /\ (pc = "attempt") ~> (pc = "result" /\ smsResult # NULL)
  /\ (pc = "init") ~> (pc = "done" /\ result # NULL)

\* C37 case: a run that made three attempts and slept twice has returned.
C37_Witness ==
  /\ pc = "done"
  /\ Len(attemptLog) = 3
  /\ Len(sleeps) = 2

\* ---------------------------------------------------------------- Scheduler
\* The cron tasks that fire
Scheduled == {j \in 1..Len(cronJobs) : cronJobs[j] = "scheduled"}

\* BirthdayCheckService.initialize returned on the service the Scheduler holds
InitializeCompleted ==
  /\ birthdayCheckService # NULL
  /\ config # NULL
  /\ validate(config) = <<>>
  /\ excelParser # "null"
  /\ dateMatcher # "null"
  /\ smsService # NULL

\* Two calls of performDailyCheck on one service overlapped and both
\* delivered the notification
DeliveredTwice ==
  \E i, j \in 1..Len(runs) :
    /\ i \in runs[j].during
    /\ runs[i].sent
    /\ runs[j].sent

\* ------------------------------------------------------------------------ C32
\* C32: over any sequence of initialize, start, stop and runNow calls,
\* isRunning = true implies that BirthdayCheckService.initialize completed
\* successfully; a start() after a failed initialize() starts no cron job.
C32_RunningMeansInitialized ==
  (isRunning \/ Scheduled # {}) => InitializeCompleted

\* ------------------------------------------------------------------------ C34
\* C34: over any sequence and interleaving of start() and stop() calls at
\* most one cron task is scheduled, isRunning is true exactly when
\* this.cronJob holds a task, and that task is the scheduled one; a start()
\* on a running scheduler creates no second task.
C34_OneJobExactlyWhenRunning ==
  /\ Cardinality(Scheduled) <= 1
  /\ isRunning <=> cronJob # NULL
  /\ Scheduled = IF cronJob = NULL THEN {} ELSE {cronJob.job}

\* C34 case: start() was called and has returned on a scheduler that the
\* start() before it had left running.
C34_Witness ==
  /\ callLog = <<"initialize", "start", "start">>
  /\ suspended = <<>>
  /\ cronJobs = <<"scheduled">>
  /\ isRunning

\* ------------------------------------------------------------------------ C35
\* C35: once stop() has stopped a running scheduler, and until start() is
\* called again, isRunning is false, this.cronJob is discarded, no task is
\* scheduled, and no scheduled execution begins.
C35_StoppedUntilStartCalledAgain ==
  /\ afterStop => (~isRunning /\ cronJob = NULL /\ Scheduled = {})
  /\ \A i \in 1..Len(runs) : runs[i].trigger = "cron" => ~runs[i].afterStop

\* ------------------------------------------------------------------------ C36
\* C36: no call of performDailyCheck is made on a service while an earlier
\* call on it has not returned, whether executeTask or runNow makes it, and
\* so no two overlapping calls both deliver the notification.
C36_RunsSerialized ==
  /\ \A i \in 1..Len(runs) : runs[i].during = {}
  /\ ~DeliveredTwice

\* ------------------------------------------------------------------------ C38
\* C38: after any sequence of log writes, over any number of rotations and
\* days, the log directory holds at most maxFiles + 1 files ending in .log.
C38_AtMostMaxFilesPlusOne ==
  Cardinality(logDir) <= maxFiles + 1
====
